---- MODULE Spec2Model ----
(***************************************************************************)
(* A model of gwsurrogate's precessing surrogate evaluator                 *)
(* (gwsurrogate/new/precessing_surrogate.py).                              *)
(*                                                                         *)
(* Numbers.  The source computes in floating point; the model computes in  *)
(* exact integers:                                                         *)
(*   - spin components in units of 1e-3 (so 1.001 is 1001),                *)
(*   - orbital frequencies omega in units of 1e-6 (so 0.201 is 201000),    *)
(*   - GW frequencies fM in units of 1e-3, and pi as 3142 * 1e-3,          *)
(*     so that fM * pi is again in units of 1e-6,                          *)
(*   - phases in quarter turns (sin and cos are then exactly 0, 1 or -1),  *)
(*   - times as integers, an interpolated time as a fraction <<num, den>>  *)
(*     with den > 0,                                                       *)
(*   - complex numbers as <<re, im>>.                                      *)
(* Python's None is the empty tuple, a present value v is <<v>>.  Arrays   *)
(* keep the source's 0-based indices: they are functions on 0..n-1.        *)
(***************************************************************************)
EXTENDS Integers, Sequences, FiniteSets, TLC

VARIABLES
    h5file,   \* the data container the constructors read (t_ds, the fits, t_coorb, ...)
    dyn,      \* the DynamicsSurrogate instance: status, t, diff_t, L, fit_data
    coorb_sur,\* the CoorbitalWaveformSurrogate instance: ellMax, t, data
    caller,   \* the caller's argument objects: precessing_opts, x, timesM
    entry,    \* the arguments of the latest public call, as they were at its entry
    ret,      \* what the latest public call returned or raised
    ret2,     \* what the same call returned when repeated with the same objects
    coorb,    \* CoorbitalWaveformSurrogate.__call__ in progress: cursor and modes array
    rot       \* what rotateWaveform and the mode dictionary loop made of the array

vars == <<h5file, dyn, coorb_sur, caller, entry, ret, ret2, coorb, rot>>

None == <<>>
Some(v) == <<v>>
Val(o) == o[1]

Arr(s) == [i \in 0..(Len(s) - 1) |-> s[i + 1]]
ALen(a) == Cardinality(DOMAIN a)
ALast(a) == a[ALen(a) - 1]

Max(a, b) == IF a >= b THEN a ELSE b
Min(a, b) == IF a <= b THEN a ELSE b
Abs(a) == IF a >= 0 THEN a ELSE -a

(***************************************************************************)
(* Bounds of the model and constants of the program.                       *)
(***************************************************************************)
MinL == 7            \* the shortest grid on which the constructor's six intervals exist
MaxL == 9            \* the longest dynamics grid of the model
NativeStep == 3      \* the spacing of the model's grids after the half steps
SpinLimit == 1001    \* 1.001
OmegaCeil == 201000  \* 0.201
PiMilli == 3142      \* np.pi
DefaultEllMax == 4   \* ellMax when the caller gives none
MaxFileEll == 8      \* the largest ell a data container of the model holds
MaxModeCount == 80   \* the longest mode array handed to rotateWaveform on its own

(***************************************************************************)
(* The data container.  t_ds is the dynamics grid: it starts at -20, its   *)
(* first six intervals are drawn from HalfSteps (so grids with and without *)
(* the half-step structure both occur) and the later ones are NativeStep.  *)
(* ds_node[i] is the value the omega fit of node i takes at the caller's   *)
(* initial conditions (the fit itself, a polynomial in q and the spins, is *)
(* evaluated by _utils.eval_fit, which is compiled code outside this       *)
(* repository's Python sources): a family of rising, flat and dipping      *)
(* tables.                                                                 *)
(***************************************************************************)
HalfSteps == {1, 2}

RECURSIVE SumTo(_, _)
SumTo(d, n) == IF n = 0 THEN 0 ELSE d[n] + SumTo(d, n - 1)

GridOf(d, L) ==
    [i \in 0..(L - 1) |->
        -20 + SumTo(d, Min(i, 6)) + NativeStep * Max(0, i - 6)]

OmegaOf(base, slope, dip, L) ==
    [i \in 0..(L - 1) |-> base + slope * i - (IF i = 1 THEN dip ELSE 0)]

Grids == {GridOf(d, L) : d \in [1..6 -> HalfSteps], L \in MinL..MaxL}

OmegaTables(L) ==
    {OmegaOf(base, slope, dip, L) :
        base \in {40000, 100000}, slope \in {0, 30000}, dip \in {0, 30000}}

\* t_coorb: the coorbital grid, denser than t_ds and over the same span.
CoorbGridOf(t) == [i \in 0..(ALast(t) - t[0]) |-> t[0] + i]

(***************************************************************************)
(* The coorbital data: one group hCoorb_<ell>_<m>_<variant> per component, *)
(* for ell = 2..e.  Each group is an empirical interpolant (node fits and  *)
(* an EI basis) evaluated by _eval_comp; the model keeps, per group, the   *)
(* value the interpolant takes at one time sample (all array operations of *)
(* the evaluator are elementwise in time).  The values differ from group   *)
(* to group and are shifted by a seed.                                     *)
(***************************************************************************)
Variants0 == {"real", "imag"}
VariantsM == {"Re+", "Re-", "Im+", "Im-"}

CoorbKeys(e) ==
    {<<ell, 0, v>> : ell \in 2..e, v \in Variants0}
        \cup {k \in (2..e) \X (1..e) \X VariantsM : k[2] <= k[1]}

CoorbValue(k, seed) ==
    LET ell == k[1]
        m == k[2]
    IN  CASE k[3] = "real" -> 3 * ell + seed[1]
          [] k[3] = "imag" -> ell + 1 + seed[2]
          [] k[3] = "Re+" -> 3 * ell + m + seed[1]
          [] k[3] = "Re-" -> m + seed[2]
          [] k[3] = "Im+" -> ell - 2 * m + seed[1]
          [] k[3] = "Im-" -> ell * m + seed[2]

CoorbDataOf(e, seed) == [k \in CoorbKeys(e) |-> CoorbValue(k, seed)]

Seeds == {<<0, 1>>, <<1, 0>>, <<2, 5>>}

H5File(t, om, e, seed) ==
    [t_ds |-> t, ds_node |-> om, t_coorb |-> CoorbGridOf(t),
     hCoorb |-> CoorbDataOf(e, seed)]

H5Files ==
    UNION {{H5File(t, om, 4, <<0, 1>>) : om \in OmegaTables(ALen(t))} : t \in Grids}

(***************************************************************************)
(* DynamicsSurrogate.__init__: loads the grid and the fits, then validates *)
(* the grid: the first six intervals must come in three equal pairs.       *)
(***************************************************************************)
DiffT(t) == [i \in 0..(ALen(t) - 2) |-> t[i + 1] - t[i]]

\* A faulty variant: the loop over the pairs stops one pair short.
HalfStepsOkTwoPairs(diff_t) == \A i \in 0..1 : diff_t[2 * i] = diff_t[2 * i + 1]

HalfStepsOk(diff_t) == \A i \in 0..2 : diff_t[2 * i] = diff_t[2 * i + 1]

DynamicsSurrogateInit(f) ==
    LET t == f.t_ds
        diff_t == DiffT(t)
    IN  IF ~HalfStepsOk(diff_t)
        THEN [status |-> "Exception: ab4 needs to do 3 steps of RK4 integration!"]
        ELSE [status |-> "loaded", t |-> t, fit_data |-> f.ds_node,
              diff_t |-> diff_t, L |-> ALen(t)]

(***************************************************************************)
(* Norms.  The source takes normA = sqrt(sum(chiA0**2)) and compares       *)
(* max(normA, normB) > 1.001; the square root is increasing, so the model  *)
(* compares the squares, exactly.                                          *)
(***************************************************************************)
NormSq(v) == v[1] * v[1] + v[2] * v[2] + v[3] * v[3]

\* A faulty variant: the limit itself is rejected too.
MaxNormReaches(chiA0, chiB0, limit) ==
    Max(NormSq(chiA0), NormSq(chiB0)) >= limit * limit

MaxNormExceeds(chiA0, chiB0, limit) ==
    Max(NormSq(chiA0), NormSq(chiB0)) > limit * limit

(***************************************************************************)
(* Fractions <<num, den>>, den > 0, for the interpolated reference time.   *)
(***************************************************************************)
Frac(n) == <<n, 1>>
FracLt(a, b) == a[1] * b[2] < b[1] * a[2]
FracDist(a, n) == Abs(a[1] - n * a[2])   \* |a - n| in units of 1/den

(***************************************************************************)
(* DynamicsSurrogate.get_omega and _get_t_ref.  A result carries the       *)
(* number of fit evaluations made, so that "nothing was evaluated before   *)
(* the error" can be stated.                                               *)
(***************************************************************************)
GetOmega(self, i0) == self.fit_data[i0]

\* The while loop of _get_t_ref: the first index imax >= 1 with
\* omega(imax) > omega_ref; self.L when the loop runs off the grid
\* (self.fit_data[imax] then raises IndexError).
RECURSIVE BracketSearch(_, _, _)
BracketSearch(self, omega_ref, imax) ==
    IF imax >= self.L THEN self.L
    ELSE IF GetOmega(self, imax) <= omega_ref
         THEN BracketSearch(self, omega_ref, imax + 1)
         ELSE imax

GetTRef(self, omega_ref) ==
    IF omega_ref > OmegaCeil
    THEN [status |-> "Exception: omega_ref too large!", t_ref |-> None, evals |-> 0]
    ELSE LET omega0 == GetOmega(self, 0) IN
         IF omega_ref < omega0
         THEN [status |-> "Exception: omega_ref too small!", t_ref |-> None, evals |-> 1]
         ELSE LET imax == BracketSearch(self, omega_ref, 1) IN
              IF imax >= self.L
              THEN [status |-> "IndexError", t_ref |-> None, evals |-> self.L]
              ELSE LET omega_max == GetOmega(self, imax)
                       omega_min == GetOmega(self, imax - 1)
                       t_ref == <<self.t[imax - 1] * (omega_max - omega_ref)
                                    + self.t[imax] * (omega_ref - omega_min),
                                  omega_max - omega_min>>
                   IN  IF FracLt(t_ref, Frac(self.t[0]))
                          \/ FracLt(Frac(ALast(self.t)), t_ref)
                       THEN [status |-> "Exception: t_ref outside of the time domain limits!",
                             t_ref |-> None, evals |-> imax + 1]
                       ELSE [status |-> "ok", t_ref |-> Some(t_ref), evals |-> imax + 1]

(***************************************************************************)
(* DynamicsSurrogate.get_time_deriv: the bounds check and the window of 4  *)
(* nodes whose derivatives are spline-interpolated to time t.              *)
(***************************************************************************)
\* np.argmin(abs(a - t)): the first index of the least distance.
ArgMinDist(a, t) ==
    CHOOSE i \in DOMAIN a :
        /\ \A j \in DOMAIN a : FracDist(t, a[i]) <= FracDist(t, a[j])
        /\ \A j \in DOMAIN a : j < i => FracDist(t, a[j]) > FracDist(t, a[i])

\* A faulty variant: the window starts one node below the nearest node whichever
\* side of it t lies on.
GetTimeDerivOneSided(self, t) ==
    IF FracLt(t, Frac(self.t[0])) \/ FracLt(Frac(ALast(self.t)), t)
    THEN [status |-> "Exception: Cannot extrapolate time derivative!", imin |-> -1]
    ELSE LET i0 == ArgMinDist(self.t, t)
         IN  [status |-> "ok", imin |-> Min(Max(0, i0 - 1), ALen(self.t) - 4)]

GetTimeDeriv(self, t) ==
    IF FracLt(t, Frac(self.t[0])) \/ FracLt(Frac(ALast(self.t)), t)
    THEN [status |-> "Exception: Cannot extrapolate time derivative!", imin |-> -1]
    ELSE LET i0 == ArgMinDist(self.t, t)
             imin == IF FracLt(Frac(self.t[i0]), t) THEN i0 - 1 ELSE i0 - 2
         IN  [status |-> "ok", imin |-> Min(Max(0, imin), ALen(self.t) - 4)]

(***************************************************************************)
(* DynamicsSurrogate._initialize: the state buffer data has L-3 rows, one  *)
(* per node of the grid with the half steps removed (times).  Row i0, the  *)
(* node nearest to t_ref, receives the initial conditions.                 *)
(***************************************************************************)
CollapsedTimes(self) ==
    [j \in 0..(self.L - 4) |-> IF j < 3 THEN self.t[2 * j] ELSE self.t[j + 3]]

Initialize(self, t_ref) ==
    IF t_ref = None
    THEN [status |-> "ok", i0 |-> 0, derivs |-> 0]
    ELSE LET times == CollapsedTimes(self)
             i0 == ArgMinDist(times, Val(t_ref))
             dydt0 == GetTimeDeriv(self, Val(t_ref))
         IN  IF dydt0.status # "ok"
             THEN [status |-> dydt0.status, i0 |-> i0, derivs |-> 0]
             ELSE [status |-> "ok", i0 |-> i0, derivs |-> 1]

(***************************************************************************)
(* The three bootstrap regimes of DynamicsSurrogate.__call__, as far as    *)
(* their index arithmetic decides whether the call completes: which self.t *)
(* nodes and y_of_t rows each RK4 step touches, and the guards of the AB4  *)
(* loops.  rows counts the rows of the buffer written so far.              *)
(***************************************************************************)
\* _one_forward_RK4_step at row i0 reads self.t[i_t], self.t[i_t + 1] (and
\* self.t[i_t + 2] below row 3) and writes row i0 + 1.
ForwardRK4InRange(self, i0) ==
    LET i_t == IF i0 < 3 THEN i0 * 2 ELSE i0 + 3
    IN  /\ i_t + 1 <= self.L - 1
        /\ (i0 < 3 => i_t + 2 <= self.L - 1)
        /\ i0 + 1 <= self.L - 4

Integrate(self, i0) ==
    IF i0 = 0
    THEN [status |-> "ok", rows |-> self.L - 3]
    ELSE IF i0 > 2
    THEN [status |-> "ok", rows |-> self.L - 3]
    ELSE LET bad == {i \in 0..2 : ~ForwardRK4InRange(self, i0 + i)}
         IN  IF bad # {}
             THEN [status |-> "IndexError",
                   rows |-> 1 + (CHOOSE i \in bad : \A j \in bad : i <= j)]
             ELSE IF i0 > ALen(self.t) - 7
             THEN [status |-> "Exception: i0 must be <= len(self.t) - 7",
                   rows |-> self.L - 3 - i0]
             ELSE [status |-> "ok", rows |-> self.L - 3]

(***************************************************************************)
(* DynamicsSurrogate.__call__.  The result names the exception raised (or  *)
(* "ok"), the work done before it (omega fits evaluated by _get_t_ref,     *)
(* get_time_deriv calls, buffer rows written), and what determines the     *)
(* returned arrays: the initial state y0, the reference time and row i0.   *)
(***************************************************************************)
InitialState(chiA0, chiB0, init_quat, init_orbphase) ==
    [quat |-> IF init_quat = None THEN <<1, 0, 0, 0>> ELSE Val(init_quat),
     orbphase |-> init_orbphase, chiA |-> chiA0, chiB |-> chiB0]

DynResult(status, evals, derivs, rows, y0, t_ref, i0) ==
    [status |-> status, evals |-> evals, derivs |-> derivs, rows |-> rows,
     y0 |-> y0, t_ref |-> t_ref, i0 |-> i0]

DynamicsCall(self, q, chiA0, chiB0, init_quat, init_orbphase, t_ref, omega_ref) ==
    IF t_ref # None /\ omega_ref # None
    THEN DynResult("Exception: Specify at most one of t_ref, omega_ref.",
                   0, 0, 0, None, None, -1)
    ELSE IF MaxNormExceeds(chiA0, chiB0, SpinLimit)
    THEN DynResult("Exception: Got a spin magnitude > 1.0", 0, 0, 0, None, None, -1)
    ELSE LET found == IF omega_ref # None
                      THEN GetTRef(self, Val(omega_ref))
                      ELSE [status |-> "ok", evals |-> 0,
                            t_ref |-> IF t_ref = None THEN None
                                      ELSE Some(Frac(Val(t_ref)))]
             y0 == InitialState(chiA0, chiB0, init_quat, init_orbphase)
         IN  IF found.status # "ok"
             THEN DynResult(found.status, found.evals, 0, 0, None, None, -1)
             ELSE LET init == Initialize(self, found.t_ref) IN
                  IF init.status # "ok"
                  THEN DynResult(init.status, found.evals, 0, 0, None, found.t_ref, -1)
                  ELSE LET run == Integrate(self, init.i0) IN
                       DynResult(run.status, found.evals, init.derivs, run.rows,
                                 Some(y0), found.t_ref, init.i0)

(***************************************************************************)
(* Complex numbers <<re, im>>.                                             *)
(***************************************************************************)
CAdd(a, b) == <<a[1] + b[1], a[2] + b[2]>>
CSub(a, b) == <<a[1] - b[1], a[2] - b[2]>>
CConj(a) == <<a[1], -a[2]>>

(***************************************************************************)
(* CoorbitalWaveformSurrogate.__init__: self.ellMax is the largest ell for *)
(* which the container holds the group hCoorb_<ell>_<ell>_Re+.             *)
(***************************************************************************)
RECURSIVE FindEllMax(_, _)
FindEllMax(f, ellMax) ==
    IF <<ellMax + 1, ellMax + 1, "Re+">> \in DOMAIN f.hCoorb
    THEN FindEllMax(f, ellMax + 1)
    ELSE ellMax

CoorbInit(f) ==
    [ellMax |-> FindEllMax(f, 2), t |-> f.t_coorb, data |-> f.hCoorb]

(***************************************************************************)
(* _assemble_mode_pair: returns the pair that __call__ unpacks as          *)
(* (h_posm, h_negm).                                                       *)
(***************************************************************************)
\* A faulty variant: the two members of the pair returned in the other order.
AssembleModePairSwapped(rep, rem, imp, imm) ==
    LET hplus == <<rep, imp>>
        hminus == <<rem, imm>>
    IN  <<CAdd(hplus, hminus), CConj(CSub(hplus, hminus))>>

AssembleModePair(rep, rem, imp, imm) ==
    LET hplus == <<rep, imp>>
        hminus == <<rem, imm>>
    IN  <<CConj(CSub(hplus, hminus)), CAdd(hplus, hminus)>>

(***************************************************************************)
(* CoorbitalWaveformSurrogate.__call__: the size of the modes array and    *)
(* the row of mode (ell, m).                                               *)
(***************************************************************************)
NModes(ellMax) == ellMax * ellMax + 2 * ellMax - 3

\* A faulty variant: the offset of block ell taken as that of block ell - 1.
ModeRowShifted(ell, m) == ell * (ell - 1) - 4 + m

ModeRow(ell, m) == ell * (ell + 1) - 4 + m

\* Whether every group the loops of __call__ look up exists (else KeyError).
CoorbStatus(self, ellMax) ==
    IF \A k \in CoorbKeys(ellMax) : k \in DOMAIN self.data THEN "ok" ELSE "KeyError"

(***************************************************************************)
(* rotateWaveform: ellMax from the number of modes, then for each ell the  *)
(* block res[i+m+ell] += matrices[ell-2][ell+m, ell+mp] * h[i+mp+ell],     *)
(* with i advanced by 2*ell+1 after each ell.  terms lists, per product    *)
(* accumulated, the row written, the row read and the matrix entry used.   *)
(***************************************************************************)
\* A faulty variant: only the three mode counts the docstring of rotateWaveform names.
EllMaxTableShort == (5 :> 2) @@ (12 :> 3) @@ (21 :> 4)

EllMaxTable ==
    (5 :> 2) @@ (12 :> 3) @@ (21 :> 4) @@ (32 :> 5) @@ (45 :> 6) @@ (60 :> 7)
        @@ (77 :> 8)

RECURSIVE RotateTerms(_, _, _)
RotateTerms(ell, ellMax, i) ==
    IF ell > ellMax THEN {}
    ELSE {[out |-> i + m + ell, in |-> i + mp + ell, ell |-> ell, m |-> m, mp |-> mp] :
              m \in (-ell)..ell, mp \in (-ell)..ell}
             \cup RotateTerms(ell + 1, ellMax, i + 2 * ell + 1)

RotateWaveform(nrows) ==
    IF nrows \notin DOMAIN EllMaxTable
    THEN [status |-> "KeyError", n |-> nrows, ellMax |-> 0, terms |-> {}]
    ELSE [status |-> "ok", n |-> nrows, ellMax |-> EllMaxTable[nrows],
          terms |-> RotateTerms(2, EllMaxTable[nrows], 0)]

(***************************************************************************)
(* The mode dictionary loop of PrecessingSurrogate.__call__:               *)
(* h[(ell, m)] = h_inertial[i], i counting up by one per (ell, m).         *)
(***************************************************************************)
RECURSIVE ModeDict(_, _, _)
ModeDict(ell, ellMax, i) ==
    IF ell > ellMax THEN {}
    ELSE {[key |-> <<ell, m>>, row |-> i + (m + ell)] : m \in (-ell)..ell}
             \cup ModeDict(ell + 1, ellMax, i + 2 * ell + 1)

(***************************************************************************)
(* States in which an object does not exist yet or no call has been made.  *)
(***************************************************************************)
NoObject == [status |-> "none"]
NoCall == [fn |-> "none"]
NoCoorbCall ==
    [pc |-> "idle", ellMax |-> 0, ell |-> 0, m |-> 0, modes |-> <<>>,
     writes |-> <<>>, label |-> <<>>]
NoRotation ==
    [pc |-> "idle", src |-> "none", status |-> "none", n |-> 0, ellMax |-> 0,
     terms |-> {}, hdict |-> {}]

(***************************************************************************)
(* CoorbitalWaveformSurrogate.__call__, one loop iteration per step.       *)
(* writes[r] counts the assignments to row r; label[r] remembers for which *)
(* (ell, m) row r was last assigned.                                       *)
(***************************************************************************)
WriteRow(c, row, val, lm) ==
    [c EXCEPT !.modes[row] = val, !.writes[row] = @ + 1, !.label[row] = lm]

HasGroups(self, ell, m, variants) ==
    \A v \in variants : <<ell, m, v>> \in DOMAIN self.data

EvalComp(self, ell, m, v) == self.data[<<ell, m, v>>]

\* The cursor after the iteration (ell, m) of the nested loops.
Advance(c) ==
    IF c.m < c.ell THEN [c EXCEPT !.pc = "pair", !.m = c.m + 1]
    ELSE IF c.ell < c.ellMax THEN [c EXCEPT !.pc = "m0", !.ell = c.ell + 1, !.m = 0]
    ELSE [c EXCEPT !.pc = "return"]

CoorbBegin(ellMax) ==
    /\ coorb.pc = "idle"
    /\ rot.pc = "idle"
    /\ coorb' = [pc |-> IF ellMax < 2 THEN "return" ELSE "m0",
                 ellMax |-> ellMax, ell |-> 2, m |-> 0,
                 modes |-> [i \in 0..(NModes(ellMax) - 1) |-> <<0, 0>>],
                 writes |-> [i \in 0..(NModes(ellMax) - 1) |-> 0],
                 label |-> [i \in 0..(NModes(ellMax) - 1) |-> <<0, 0>>]]
    /\ UNCHANGED <<h5file, dyn, coorb_sur, caller, entry, ret, ret2, rot>>

CoorbM0 ==
    /\ coorb.pc = "m0"
    /\ LET ell == coorb.ell IN
       IF ~HasGroups(coorb_sur, ell, 0, Variants0)
       THEN coorb' = [coorb EXCEPT !.pc = "KeyError"]
       ELSE LET re == EvalComp(coorb_sur, ell, 0, "real")
                im == EvalComp(coorb_sur, ell, 0, "imag")
            IN  coorb' = Advance(WriteRow(coorb, ModeRow(ell, 0), <<re, im>>, <<ell, 0>>))
    /\ UNCHANGED <<h5file, dyn, coorb_sur, caller, entry, ret, ret2, rot>>

CoorbPair ==
    /\ coorb.pc = "pair"
    /\ LET ell == coorb.ell
           m == coorb.m
       IN  IF ~HasGroups(coorb_sur, ell, m, VariantsM)
           THEN coorb' = [coorb EXCEPT !.pc = "KeyError"]
           ELSE LET rep == EvalComp(coorb_sur, ell, m, "Re+")
                    rem == EvalComp(coorb_sur, ell, m, "Re-")
                    imp == EvalComp(coorb_sur, ell, m, "Im+")
                    imm == EvalComp(coorb_sur, ell, m, "Im-")
                    pair == AssembleModePair(rep, rem, imp, imm)
                    h_posm == pair[1]
                    h_negm == pair[2]
                    c1 == WriteRow(coorb, ModeRow(ell, m), h_posm, <<ell, m>>)
                    c2 == WriteRow(c1, ModeRow(ell, -m), h_negm, <<ell, -m>>)
                IN  coorb' = Advance(c2)
    /\ UNCHANGED <<h5file, dyn, coorb_sur, caller, entry, ret, ret2, rot>>

CoorbReturn ==
    /\ coorb.pc = "return"
    /\ coorb' = [coorb EXCEPT !.pc = "done"]
    /\ UNCHANGED <<h5file, dyn, coorb_sur, caller, entry, ret, ret2, rot>>

\* inertial_waveform_modes: rotateWaveform(qfull, h_coorb) on the array returned.
RotateCoorb ==
    /\ coorb.pc = "done"
    /\ rot.pc = "idle"
    /\ rot' = RotateWaveform(ALen(coorb.modes))
                  @@ [pc |-> "rotated", src |-> "coorb", hdict |-> {}]
    /\ UNCHANGED <<h5file, dyn, coorb_sur, caller, entry, ret, ret2, coorb>>

\* The mode dictionary built from the rotated array, for the call's ellMax.
MakeModeDict ==
    /\ rot.pc = "rotated"
    /\ rot.src = "coorb"
    /\ rot.status = "ok"
    /\ rot' = [rot EXCEPT !.pc = "dict", !.hdict = ModeDict(2, coorb.ellMax, 0)]
    /\ UNCHANGED <<h5file, dyn, coorb_sur, caller, entry, ret, ret2, coorb>>

\* rotateWaveform called on its own with a mode array of n rows.
RotateAny(n) ==
    /\ coorb.pc = "idle"
    /\ rot.pc = "idle"
    /\ rot' = RotateWaveform(n) @@ [pc |-> "rotated", src |-> "any", hdict |-> {}]
    /\ UNCHANGED <<h5file, dyn, coorb_sur, caller, entry, ret, ret2, coorb>>

CoorbFiles ==
    {H5File(GridOf([i \in 1..6 |-> 1], MinL), OmegaOf(40000, 30000, 0, MinL), e, seed) :
        e \in 2..MaxFileEll, seed \in Seeds}

InitCoorb ==
    /\ h5file \in CoorbFiles
    /\ dyn = NoObject
    /\ coorb_sur = CoorbInit(h5file)
    /\ caller = <<>>
    /\ entry = NoCall
    /\ ret = NoCall
    /\ ret2 = NoCall
    /\ coorb = NoCoorbCall
    /\ rot = NoRotation

CoorbCallAny ==
    /\ coorb.pc = "idle"
    /\ \E ellMax \in 1..(coorb_sur.ellMax + 1) : CoorbBegin(ellMax)

RotateAnyCount ==
    /\ rot.pc = "idle"
    /\ \E n \in 0..MaxModeCount : RotateAny(n)

NextCoorb ==
    \/ CoorbCallAny
    \/ CoorbM0
    \/ CoorbPair
    \/ CoorbReturn
    \/ RotateCoorb
    \/ MakeModeDict
    \/ RotateAnyCount

SpecCoorb == InitCoorb /\ [][NextCoorb]_vars

(***************************************************************************)
(* Properties of the coorbital evaluator and of rotateWaveform's indexing. *)
(***************************************************************************)
\* The pair (ell, m) of the evaluator's loops has been assembled and stored.
PairStored(ell, m) ==
    \/ coorb.pc \in {"return", "done"}
    \/ /\ coorb.pc \in {"m0", "pair", "KeyError"}
       /\ (ell < coorb.ell \/ (ell = coorb.ell /\ m < coorb.m))

\* C8 as stated: for every ell and m > 0 the evaluator stores
\* (Re+ + i Im+) + (Re- + i Im-) at the +m slot and
\* conjugate(Re+ + i Im+) - (Re- + i Im-) at the -m slot.
C8_PairAsStated ==
    \A ell \in 2..coorb.ellMax : \A m \in 1..ell :
        PairStored(ell, m) /\ ell <= coorb_sur.ellMax =>
            LET P == <<coorb_sur.data[<<ell, m, "Re+">>], coorb_sur.data[<<ell, m, "Im+">>]>>
                M == <<coorb_sur.data[<<ell, m, "Re-">>], coorb_sur.data[<<ell, m, "Im-">>]>>
            IN  /\ coorb.modes[ell * (ell + 1) - 4 + m] = CAdd(P, M)
                /\ coorb.modes[ell * (ell + 1) - 4 - m] = CSub(CConj(P), M)

\* C8 amended: for every ell and m > 0 the evaluator stores
\* conjugate((Re+ + i Im+) - (Re- + i Im-)) at the +m slot and
\* (Re+ + i Im+) + (Re- + i Im-) at the -m slot.
C8_PairAsCoded ==
    \A ell \in 2..coorb.ellMax : \A m \in 1..ell :
        PairStored(ell, m) /\ ell <= coorb_sur.ellMax =>
            LET P == <<coorb_sur.data[<<ell, m, "Re+">>], coorb_sur.data[<<ell, m, "Im+">>]>>
                M == <<coorb_sur.data[<<ell, m, "Re-">>], coorb_sur.data[<<ell, m, "Im-">>]>>
            IN  /\ coorb.modes[ell * (ell + 1) - 4 + m] = CConj(CSub(P, M))
                /\ coorb.modes[ell * (ell + 1) - 4 - m] = CAdd(P, M)

\* A call for ellMax = 3 has returned: the pairs (2,1), (2,2), (3,1), (3,2), (3,3)
\* are stored.
C8_Witness == coorb.pc = "done" /\ coorb.ellMax = 3

\* C9: a completed call for ellMax >= 2 returns ellMax^2 + 2 ellMax - 3 rows, row
\* ell (ell + 1) - 4 + m holding mode (ell, m), the rows in the order (2,-2), ...,
\* (2,2), (3,-3), ..., each written exactly once (and never twice on the way);
\* rotateWaveform reads and writes, for each matrix entry (ell; m, mp), the rows
\* of (ell, mp) and (ell, m), and the dictionary loop files row i under the
\* (ell, m) the evaluator stored there.
C9_DenseModeArray ==
    /\ \A r \in DOMAIN coorb.writes : coorb.writes[r] <= 1
    /\ coorb.pc \in {"return", "done"} /\ coorb.ellMax >= 2 =>
        /\ ALen(coorb.modes) = coorb.ellMax * coorb.ellMax + 2 * coorb.ellMax - 3
        /\ \A r \in DOMAIN coorb.writes : coorb.writes[r] = 1
        /\ \A ell \in 2..coorb.ellMax : \A m \in (-ell)..ell :
               coorb.label[ell * (ell + 1) - 4 + m] = <<ell, m>>
        /\ \A r1, r2 \in DOMAIN coorb.label :
               r1 < r2 =>
                   \/ coorb.label[r1][1] < coorb.label[r2][1]
                   \/ /\ coorb.label[r1][1] = coorb.label[r2][1]
                      /\ coorb.label[r1][2] < coorb.label[r2][2]
    /\ rot.src = "coorb" /\ rot.status = "ok" =>
        /\ rot.ellMax = coorb.ellMax
        /\ \A x \in rot.terms :
               /\ coorb.label[x.out] = <<x.ell, x.m>>
               /\ coorb.label[x.in] = <<x.ell, x.mp>>
        /\ \A ell \in 2..coorb.ellMax : \A m, mp \in (-ell)..ell :
               \E x \in rot.terms : x.ell = ell /\ x.m = m /\ x.mp = mp
    /\ rot.pc = "dict" =>
        /\ \A e \in rot.hdict : coorb.label[e.row] = e.key
        /\ \A r \in DOMAIN coorb.modes : \E e \in rot.hdict : e.row = r

\* The whole chain has run for ellMax = 4: evaluator, rotateWaveform, dictionary.
C9_Witness == rot.pc = "dict" /\ coorb.ellMax = 4 /\ coorb.pc = "done"

\* C10: for ellMax in 2..8 the evaluator's mode count is a key of rotateWaveform's
\* table and maps back to ellMax; a mode count that is no key of
\* {5:2, 12:3, 21:4, 32:5, 45:6, 60:7, 77:8} raises KeyError and yields no result.
C10_ModeCountTable ==
    /\ rot.src = "coorb" /\ coorb.ellMax \in 2..8 =>
        /\ rot.status = "ok"
        /\ rot.n = coorb.ellMax * coorb.ellMax + 2 * coorb.ellMax - 3
        /\ rot.ellMax = coorb.ellMax
    /\ rot.pc # "idle" /\ rot.n \notin {5, 12, 21, 32, 45, 60, 77} =>
        rot.status = "KeyError" /\ rot.terms = {}
    /\ rot.pc # "idle" /\ rot.n \in {5, 12, 21, 32, 45, 60, 77} =>
        /\ rot.status = "ok"
        /\ rot.ellMax \in 2..8
        /\ rot.ellMax * rot.ellMax + 2 * rot.ellMax - 3 = rot.n

\* rotateWaveform has accepted the 77 modes of a call for ellMax = 8.
C10_Witness ==
    rot.src = "coorb" /\ coorb.ellMax = 8 /\ rot.status = "ok" /\ rot.n = 77

(***************************************************************************)
(* The DynamicsSurrogate on its own: construction from any container of    *)
(* the family, then one call of DynamicsSurrogate.__call__.                *)
(***************************************************************************)
MassRatios == {1}
SpinPairs ==
    {<<<<0, 0, 300>>, <<0, 0, -100>>>>,
     <<<<600, 800, 0>>, <<0, 0, 1001>>>>,
     <<<<0, 0, 1002>>, <<0, 0, 300>>>>,
     <<<<300, 0, 0>>, <<1001, 45, 0>>>>}
InitQuats == {None, Some(<<0, 0, 0, 1>>)}
OrbPhases == {0, 1}
TRefs == {None} \cup {Some(v) : v \in {-21, -20, -18, -13, -9, 0}}
OmegaRefs == {None} \cup {Some(v) : v \in {30000, 120000, 201000, 201001}}

LoadDynamics ==
    /\ dyn.status = "none"
    /\ dyn' = DynamicsSurrogateInit(h5file)
    /\ UNCHANGED <<h5file, coorb_sur, caller, entry, ret, ret2, coorb, rot>>

DynCall(q, chi, init_quat, init_orbphase, t_ref, omega_ref) ==
    /\ dyn.status = "loaded"
    /\ ret.fn = "none"
    /\ entry' = [fn |-> "DynamicsSurrogate.__call__", q |-> q, chiA0 |-> chi[1],
                 chiB0 |-> chi[2], init_quat |-> init_quat,
                 init_orbphase |-> init_orbphase, t_ref |-> t_ref,
                 omega_ref |-> omega_ref]
    /\ ret' = [fn |-> "DynamicsSurrogate.__call__",
               dyn |-> DynamicsCall(dyn, q, chi[1], chi[2], init_quat, init_orbphase,
                                    t_ref, omega_ref)]
    /\ UNCHANGED <<h5file, dyn, coorb_sur, caller, ret2, coorb, rot>>

InitDyn ==
    /\ h5file \in H5Files
    /\ dyn = NoObject
    /\ coorb_sur = NoObject
    /\ caller = <<>>
    /\ entry = NoCall
    /\ ret = NoCall
    /\ ret2 = NoCall
    /\ coorb = NoCoorbCall
    /\ rot = NoRotation

FirstDynCall ==
    /\ dyn.status = "loaded"
    /\ ret.fn = "none"
    /\ \E q \in MassRatios, chi \in SpinPairs, init_quat \in InitQuats,
          init_orbphase \in OrbPhases, t_ref \in TRefs, omega_ref \in OmegaRefs :
           DynCall(q, chi, init_quat, init_orbphase, t_ref, omega_ref)

NextDyn ==
    \/ LoadDynamics
    \/ FirstDynCall

SpecDyn == InitDyn /\ [][NextDyn]_vars

ValidationErrors ==
    {"Exception: Specify at most one of t_ref, omega_ref.",
     "Exception: Got a spin magnitude > 1.0"}

\* C5: DynamicsSurrogate.__call__ raises when both t_ref and omega_ref are given
\* and when the larger spin magnitude exceeds 1.001, in both cases before any fit
\* or derivative evaluation and before any row of the state buffer is written;
\* magnitudes up to and including 1.001 with at most one reference pass.
C5_ValidationFirst ==
    ret.fn = "DynamicsSurrogate.__call__" =>
        LET both == entry.t_ref # None /\ entry.omega_ref # None
            normSqA == entry.chiA0[1] * entry.chiA0[1] + entry.chiA0[2] * entry.chiA0[2]
                           + entry.chiA0[3] * entry.chiA0[3]
            normSqB == entry.chiB0[1] * entry.chiB0[1] + entry.chiB0[2] * entry.chiB0[2]
                           + entry.chiB0[3] * entry.chiB0[3]
            tooLarge == normSqA > 1001 * 1001 \/ normSqB > 1001 * 1001
        IN  /\ both \/ tooLarge =>
                /\ ret.dyn.status \in ValidationErrors
                /\ ret.dyn.evals = 0 /\ ret.dyn.derivs = 0 /\ ret.dyn.rows = 0
                /\ ret.dyn.y0 = None
            /\ both => ret.dyn.status = "Exception: Specify at most one of t_ref, omega_ref."
            /\ ~both /\ ~tooLarge => ret.dyn.status \notin ValidationErrors

\* A call with one reference argument and a spin of magnitude above 1.001 whose
\* components are each within 1.001 has been rejected.
C5_Witness ==
    /\ ret.fn = "DynamicsSurrogate.__call__"
    /\ entry.chiB0 = <<1001, 45, 0>>
    /\ entry.t_ref = None /\ entry.omega_ref # None
    /\ ret.dyn.status = "Exception: Got a spin magnitude > 1.0"

\* C7: construction fails if and only if for some i in {0, 1, 2} the intervals
\* t[2i+1] - t[2i] and t[2i+2] - t[2i+1] differ, and no call runs on an instance
\* whose grid violates this.
C7_GridValidatedAtLoad ==
    LET t == h5file.t_ds
        violated == \E i \in 0..2 : t[2 * i + 1] - t[2 * i] # t[2 * i + 2] - t[2 * i + 1]
    IN  /\ dyn.status # "none" => (dyn.status # "loaded" <=> violated)
        /\ ret.fn # "none" => dyn.status = "loaded" /\ ~violated

\* Construction has failed on a grid whose first two pairs are equal and whose
\* third pair is not.
C7_Witness ==
    LET t == h5file.t_ds
    IN  /\ dyn.status \notin {"none", "loaded"}
        /\ t[1] - t[0] = t[2] - t[1]
        /\ t[3] - t[2] = t[4] - t[3]
        /\ t[5] - t[4] # t[6] - t[5]

(***************************************************************************)
(* PrecessingSurrogate.  Dictionaries are functions on their key sets.     *)
(***************************************************************************)
DictGet(d, key, default) == IF key \in DOMAIN d THEN d[key] ELSE default
DictDel(d, key) == [k \in (DOMAIN d) \ {key} |-> d[k]]
\* dict.pop(key, default): the value, and the dictionary without the key.
DictPop(d, key, default) == [val |-> DictGet(d, key, default), rest |-> DictDel(d, key)]

\* rotate_spin for a phase in quarter turns.
Cos4(k) == CASE k % 4 = 0 -> 1 [] k % 4 = 1 -> 0 [] k % 4 = 2 -> -1 [] k % 4 = 3 -> 0
Sin4(k) == CASE k % 4 = 0 -> 0 [] k % 4 = 1 -> 1 [] k % 4 = 2 -> 0 [] k % 4 = 3 -> -1

RotateSpin(chi, phase) ==
    LET sp == Sin4(phase)
        cp == Cos4(phase)
    IN  <<chi[1] * cp + chi[2] * sp, chi[2] * cp - chi[1] * sp, chi[3]>>

\* fM_ref * np.pi
TimesPi(fM) == fM * PiMilli

\* A faulty variant: the frequency passed on without the factor pi.
OmegaRefOfNoPi(fM_ref) ==
    IF fM_ref = None \/ Val(fM_ref) = 0 THEN None ELSE Some(Val(fM_ref))

\* The omega_ref that __call__ derives from fM_ref.
OmegaRefOf(fM_ref) ==
    IF fM_ref = None \/ Val(fM_ref) = 0 THEN None ELSE Some(TimesPi(Val(fM_ref)))

\* t0 + dtM * np.arange(int(np.ceil((tf - t0) / dtM)))
UniformTimes(t0, tf, dtM) ==
    LET num_times == ((tf - t0) + dtM - 1) \div dtM
    IN  [i \in 0..(num_times - 1) |-> t0 + dtM * i]

PrecessingSurrogate_get_dynamics(dynamics_sur, q, chiA0, chiB0, init_phase, init_quat, t_ref, omega_ref) ==
    DynamicsCall(dynamics_sur, q, chiA0, chiB0, init_quat, init_phase, t_ref, omega_ref)

(***************************************************************************)
(* PrecessingSurrogate.__call__.  a holds the arguments; the result is     *)
(* what the call returns or raises (ret) and the contents the caller's     *)
(* precessing_opts dictionary has afterwards (opts_after; None when the    *)
(* caller passed none).  ret.used are the option values the call worked    *)
(* with; ret.h stands for the mode dictionary: its keys and what its       *)
(* values are computed from.                                               *)
(***************************************************************************)
PrecRaise(status, opts_after, used) ==
    [ret |-> [status |-> status, times |-> None, h |-> None, dynamics |-> "unbound",
              used |-> used],
     opts_after |-> opts_after]

PrecessingCall(dynamics_sur, csur, a) ==
    IF a.dfM # None
    THEN PrecRaise("ValueError: Expected dfM to be None", a.precessing_opts, None)
    ELSE IF a.freqsM # None
    THEN PrecRaise("ValueError: Expected freqsM to be None", a.precessing_opts, None)
    ELSE IF a.par_dict # None
    THEN PrecRaise("ValueError: par_dict should be None", a.precessing_opts, None)
    ELSE
    LET opts0 == IF a.precessing_opts = None THEN <<>> ELSE Val(a.precessing_opts)
        pop1 == DictPop(opts0, "init_phase", 0)
        pop2 == DictPop(pop1.rest, "init_quat", None)
        pop3 == DictPop(pop2.rest, "return_dynamics", FALSE)
        pop4 == DictPop(pop3.rest, "use_lalsimulation_conventions", FALSE)
        init_phase == pop1.val
        init_quat == pop2.val
        return_dynamics == pop3.val
        use_lalsimulation_conventions == pop4.val
        opts_after == IF a.precessing_opts = None THEN None ELSE Some(pop4.rest)
        ellMax == IF a.ellMax = None THEN DefaultEllMax ELSE Val(a.ellMax)
        q == a.x[1]
        chiA0 == IF use_lalsimulation_conventions
                 THEN RotateSpin(a.x[2], -1 * init_phase) ELSE a.x[2]
        chiB0 == IF use_lalsimulation_conventions
                 THEN RotateSpin(a.x[3], -1 * init_phase) ELSE a.x[3]
        used == Some([init_phase |-> init_phase, init_quat |-> init_quat,
                      return_dynamics |-> return_dynamics,
                      use_lalsimulation_conventions |-> use_lalsimulation_conventions,
                      chiA0 |-> chiA0, chiB0 |-> chiB0])
    IN
    IF use_lalsimulation_conventions
    THEN \* "if phi is not None": phi is no argument, local or global of the module
         PrecRaise("NameError: name 'phi' is not defined", opts_after, used)
    ELSE
    LET omega_ref == OmegaRefOf(a.fM_ref)
        dynamics == PrecessingSurrogate_get_dynamics(dynamics_sur, q, chiA0, chiB0,
                        init_phase, init_quat, None, omega_ref)
    IN
    IF dynamics.status # "ok" THEN PrecRaise(dynamics.status, opts_after, used)
    ELSE IF CoorbStatus(csur, ellMax) # "ok" THEN PrecRaise("KeyError", opts_after, used)
    ELSE IF RotateWaveform(NModes(ellMax)).status # "ok"
    THEN PrecRaise("KeyError", opts_after, used)
    ELSE IF a.timesM # None /\ ALast(Val(a.timesM)) > ALast(csur.t)
    THEN PrecRaise("Exception: 'times' includes times larger than the maximum",
                   opts_after, used)
    ELSE IF a.timesM # None /\ Val(a.timesM)[0] < csur.t[0]
    THEN PrecRaise("Exception: 'times' starts before start of domain", opts_after, used)
    ELSE
    LET do_interp == ~(a.dtM = None /\ a.timesM = None)
        timesM == IF ~do_interp THEN csur.t
                  ELSE IF a.dtM # None
                       THEN UniformTimes(csur.t[0], ALast(csur.t), Val(a.dtM))
                       ELSE Val(a.timesM)
        h == [keys |-> {e.key : e \in ModeDict(2, ellMax, 0)}, ellMax |-> ellMax,
              do_interp |-> do_interp, dynamics |-> dynamics]
    IN
    IF return_dynamics /\ ~do_interp
    THEN \* dynamics is assigned only inside "if do_interp:"
         PrecRaise("UnboundLocalError: local variable 'dynamics' referenced before assignment",
                   opts_after, used)
    ELSE [ret |-> [status |-> "ok", times |-> Some(timesM), h |-> Some(h),
                   dynamics |-> IF return_dynamics THEN "dict" ELSE "None",
                   used |-> used],
          opts_after |-> opts_after]

(***************************************************************************)
(* The PrecessingSurrogate after construction, and its callers.  A caller  *)
(* makes one public call with argument objects of its own (caller holds    *)
(* them as they are after the call), and may then repeat that call with    *)
(* the very same objects.                                                  *)
(***************************************************************************)
OptKeys == {"init_phase", "init_quat", "return_dynamics", "use_lalsimulation_conventions"}

FullOpts ==
    {[init_phase |-> 1, init_quat |-> Some(<<0, 0, 0, 1>>), return_dynamics |-> rd,
      use_lalsimulation_conventions |-> TRUE] : rd \in BOOLEAN}

OptsDicts == {[k \in K |-> d[k]] : K \in SUBSET OptKeys, d \in FullOpts}

CallSpins == {<<<<300, 400, 100>>, <<0, -200, 0>>>>, <<<<0, 0, 1002>>, <<0, 0, 300>>>>}
CallTimes == {None, Some(Arr(<<-19, -15>>)), Some(Arr(<<-19, 5>>))}
CallFMRefs == {None, Some(0), Some(20), Some(64)}
CallDtMs == {None, Some(2)}
CallEllMaxs == {None, Some(2), Some(5)}
\* dfM, freqsM, par_dict: none given, or one of them
CallExtras == {<<None, None, None>>, <<Some(1), None, None>>, <<None, Some(1), None>>,
               <<None, None, Some(1)>>}

LoadedFiles ==
    {H5File(GridOf([i \in 1..6 |-> 1], MaxL), OmegaOf(base, 30000, dip, MaxL), 4, <<0, 1>>) :
        base \in {40000, 100000}, dip \in {0, 30000}}

Call(x, opts, timesM, fM_ref, dtM, ellMax, return_dynamics, extra) ==
    /\ ret.fn = "none"
    /\ LET a == [fn |-> "PrecessingSurrogate.__call__", x |-> x,
                 precessing_opts |-> opts, timesM |-> timesM, fM_ref |-> fM_ref,
                 dtM |-> dtM, ellMax |-> ellMax, return_dynamics |-> return_dynamics,
                 dfM |-> extra[1], freqsM |-> extra[2], par_dict |-> extra[3]]
           r == PrecessingCall(dyn, coorb_sur, a)
       IN  /\ entry' = a
           /\ ret' = [fn |-> "PrecessingSurrogate.__call__"] @@ r.ret
           /\ caller' = [x |-> x, precessing_opts |-> r.opts_after, timesM |-> timesM]
    /\ UNCHANGED <<h5file, dyn, coorb_sur, ret2, coorb, rot>>

\* The same call again: same arguments, the same dictionary object.
RepeatCall ==
    /\ ret.fn = "PrecessingSurrogate.__call__"
    /\ ret2.fn = "none"
    /\ LET a == [entry EXCEPT !.precessing_opts = caller.precessing_opts]
           r == PrecessingCall(dyn, coorb_sur, a)
       IN  /\ ret2' = [fn |-> "PrecessingSurrogate.__call__"] @@ r.ret
           /\ caller' = [caller EXCEPT !.precessing_opts = r.opts_after]
    /\ UNCHANGED <<h5file, dyn, coorb_sur, entry, ret, coorb, rot>>

GetDynamics(q, chi, init_phase, init_quat, t_ref, omega_ref) ==
    /\ ret.fn = "none"
    /\ entry' = [fn |-> "PrecessingSurrogate.get_dynamics", q |-> q, chiA0 |-> chi[1],
                 chiB0 |-> chi[2], init_phase |-> init_phase, init_quat |-> init_quat,
                 t_ref |-> t_ref, omega_ref |-> omega_ref]
    /\ ret' = [fn |-> "PrecessingSurrogate.get_dynamics",
               dyn |-> PrecessingSurrogate_get_dynamics(dyn, q, chi[1], chi[2],
                           init_phase, init_quat, t_ref, omega_ref)]
    /\ caller' = [chiA0 |-> chi[1], chiB0 |-> chi[2], init_quat |-> init_quat]
    /\ UNCHANGED <<h5file, dyn, coorb_sur, ret2, coorb, rot>>

RepeatGetDynamics ==
    /\ ret.fn = "PrecessingSurrogate.get_dynamics"
    /\ ret2.fn = "none"
    /\ ret2' = [fn |-> "PrecessingSurrogate.get_dynamics",
                dyn |-> PrecessingSurrogate_get_dynamics(dyn, entry.q, caller.chiA0,
                            caller.chiB0, entry.init_phase, caller.init_quat,
                            entry.t_ref, entry.omega_ref)]
    /\ UNCHANGED <<h5file, dyn, coorb_sur, caller, entry, ret, coorb, rot>>

Init ==
    /\ h5file \in LoadedFiles
    /\ dyn = DynamicsSurrogateInit(h5file)
    /\ coorb_sur = CoorbInit(h5file)
    /\ caller = <<>>
    /\ entry = NoCall
    /\ ret = NoCall
    /\ ret2 = NoCall
    /\ coorb = NoCoorbCall
    /\ rot = NoRotation

\* A first call: any arguments of the model's argument sets.
FirstCall ==
    /\ ret.fn = "none"
    /\ \E x \in {<<q, chi[1], chi[2]>> : q \in MassRatios, chi \in CallSpins},
          opts \in {None} \cup {Some(d) : d \in OptsDicts}, timesM \in CallTimes,
          fM_ref \in CallFMRefs, dtM \in CallDtMs, ellMax \in CallEllMaxs,
          return_dynamics \in BOOLEAN, extra \in CallExtras :
           Call(x, opts, timesM, fM_ref, dtM, ellMax, return_dynamics, extra)

FirstGetDynamics ==
    /\ ret.fn = "none"
    /\ \E q \in MassRatios, chi \in CallSpins, init_phase \in OrbPhases,
          init_quat \in InitQuats, t_ref \in {None, Some(-13)}, omega_ref \in OmegaRefs :
           GetDynamics(q, chi, init_phase, init_quat, t_ref, omega_ref)

Next ==
    \/ FirstCall
    \/ RepeatCall
    \/ FirstGetDynamics
    \/ RepeatGetDynamics

Spec == Init /\ [][Next]_vars

(***************************************************************************)
(* Properties of PrecessingSurrogate.__call__ and get_dynamics, stated on  *)
(* the arguments of the first call (entry), its result (ret), the caller's *)
(* objects after it (caller) and the result of the repeated call (ret2).   *)
(***************************************************************************)
EntryOpts == IF entry.precessing_opts = None THEN <<>> ELSE Val(entry.precessing_opts)

\* The arguments of the first call with one option entry removed.
EntryWithout(key) ==
    [entry EXCEPT !.precessing_opts = IF @ = None THEN None ELSE Some(DictDel(Val(@), key))]

\* C1: when dynamics is requested, by the return_dynamics keyword or by the
\* 'return_dynamics' entry of precessing_opts, and the same call without the
\* request completes, the call completes and its third value is a dynamics
\* record, on the native grid, with dtM and with timesM; when dynamics is not
\* requested the third value is None.
C1_DynamicsWhenRequested ==
    ret.fn = "PrecessingSurrogate.__call__" =>
        LET hasEntry == "return_dynamics" \in DOMAIN EntryOpts
            byEntry == hasEntry /\ EntryOpts["return_dynamics"]
            byKeyword == ~hasEntry /\ entry.return_dynamics
            notRequested == ~entry.return_dynamics /\ ~byEntry
            plain == [EntryWithout("return_dynamics") EXCEPT !.return_dynamics = FALSE]
            valid == PrecessingCall(dyn, coorb_sur, plain).ret.status = "ok"
        IN  valid =>
                /\ byEntry \/ byKeyword => ret.status = "ok" /\ ret.dynamics = "dict"
                /\ notRequested => ret.status = "ok" /\ ret.dynamics = "None"

\* C2: with use_lalsimulation_conventions True the call returns what the
\* default-convention call returns for the spins rotated about z by init_phase,
\* whenever that call completes; the option raises no error.
C2_LalConventionsComplete ==
    (/\ ret.fn = "PrecessingSurrogate.__call__"
     /\ "use_lalsimulation_conventions" \in DOMAIN EntryOpts
     /\ EntryOpts["use_lalsimulation_conventions"]) =>
        LET init_phase == DictGet(EntryOpts, "init_phase", 0)
            rotated == <<entry.x[1], RotateSpin(entry.x[2], -1 * init_phase),
                         RotateSpin(entry.x[3], -1 * init_phase)>>
            plain == [EntryWithout("use_lalsimulation_conventions") EXCEPT !.x = rotated]
            expected == PrecessingCall(dyn, coorb_sur, plain).ret
        IN  expected.status = "ok" =>
                /\ ret.status = "ok"
                /\ ret.times = expected.times
                /\ ret.h = expected.h
                /\ ret.dynamics = expected.dynamics

\* C3: after a public evaluation call the loaded tables are as constructed and
\* every argument object of the caller (x, the spin arrays, init_quat, timesM,
\* the precessing_opts dictionary) holds what it held before the call.
C3_ArgumentsUnchanged ==
    /\ ret.fn # "none" => dyn = DynamicsSurrogateInit(h5file) /\ coorb_sur = CoorbInit(h5file)
    /\ ret.fn = "PrecessingSurrogate.__call__" =>
           /\ caller.x = entry.x
           /\ caller.timesM = entry.timesM
           /\ caller.precessing_opts = entry.precessing_opts
    /\ ret.fn = "PrecessingSurrogate.get_dynamics" =>
           /\ caller.chiA0 = entry.chiA0
           /\ caller.chiB0 = entry.chiB0
           /\ caller.init_quat = entry.init_quat

\* C4: the second of two successive calls given the very same argument objects
\* works with the same initial phase, initial quaternion and options as the
\* first and returns (or raises) the same.
C4_RepeatIdentical ==
    ret2.fn # "none" => ret2 = ret

\* What _get_t_ref answers to a frequency outside [omega(node 0), 0.201].
OutOfRange(omega_ref) ==
    omega_ref > OmegaCeil \/ omega_ref < dyn.fit_data[0]

RangeError(omega_ref) ==
    IF omega_ref > OmegaCeil THEN "Exception: omega_ref too large!"
    ELSE "Exception: omega_ref too small!"

\* The call got as far as get_dynamics and passed the validation of
\* DynamicsSurrogate.__call__ that precedes the reference frequency.
ReachedReference ==
    /\ ret.status \notin {"ValueError: Expected dfM to be None",
                          "ValueError: Expected freqsM to be None",
                          "ValueError: par_dict should be None",
                          "NameError: name 'phi' is not defined"}
    /\ ret.status \notin ValidationErrors

\* C6 as stated: every out-of-range reference frequency is rejected, given as
\* omega_ref to get_dynamics or as fM_ref (omega_ref = pi * fM_ref) to __call__.
C6_OutOfRangeRejected ==
    /\ (/\ ret.fn = "PrecessingSurrogate.get_dynamics"
        /\ entry.omega_ref # None
        /\ OutOfRange(Val(entry.omega_ref))) =>
           /\ ret.dyn.status # "ok"
           /\ ret.dyn.status \notin ValidationErrors =>
                  ret.dyn.status = RangeError(Val(entry.omega_ref))
    /\ (/\ ret.fn = "PrecessingSurrogate.__call__"
        /\ entry.fM_ref # None
        /\ OutOfRange(TimesPi(Val(entry.fM_ref)))) =>
           /\ ret.status # "ok"
           /\ ReachedReference => ret.status = RangeError(TimesPi(Val(entry.fM_ref)))

\* C6 as amended: the same for every omega_ref given to get_dynamics and for
\* every fM_ref other than 0; fM_ref = 0 stands for "no reference frequency"
\* and the call then works from the default reference time.
C6_OutOfRangeRejectedUnlessZero ==
    /\ (/\ ret.fn = "PrecessingSurrogate.get_dynamics"
        /\ entry.omega_ref # None
        /\ OutOfRange(Val(entry.omega_ref))) =>
           /\ ret.dyn.status # "ok"
           /\ ret.dyn.status \notin ValidationErrors =>
                  ret.dyn.status = RangeError(Val(entry.omega_ref))
    /\ (/\ ret.fn = "PrecessingSurrogate.__call__"
        /\ entry.fM_ref # None
        /\ Val(entry.fM_ref) # 0
        /\ OutOfRange(TimesPi(Val(entry.fM_ref)))) =>
           /\ ret.status # "ok"
           /\ ReachedReference => ret.status = RangeError(TimesPi(Val(entry.fM_ref)))
    /\ (/\ ret.fn = "PrecessingSurrogate.__call__"
        /\ entry.fM_ref = Some(0)
        /\ ret.status = "ok") =>
           /\ Val(ret.h).dynamics.t_ref = None
           /\ Val(ret.h).dynamics.i0 = 0

\* A call with fM_ref = 0.064 (omega_ref above 0.201) has been rejected by
\* _get_t_ref, and the loaded model's initial frequency is above pi * 0.020.
C6_Witness ==
    /\ ret.fn = "PrecessingSurrogate.__call__"
    /\ entry.fM_ref = Some(64)
    /\ ret.status = "Exception: omega_ref too large!"
    /\ dyn.fit_data[0] > TimesPi(20)

(***************************************************************************)
(* Quaternions <<w, x, y, z>> (q[0..3] of the source are q[1..4] here).    *)
(* quatInv divides by the squared norm: its result is kept as the          *)
(* numerator quaternion and the denominator.                               *)
(***************************************************************************)
MaxQuatComp == 2     \* quaternion components of the model range over -MaxQuatComp..MaxQuatComp
NSamples == 2        \* time samples of the arrays handed to rotateWaveform

\* A faulty variant: the sign of the q1[3]*q2[3] term of the scalar part is flipped.
MultiplyQuatsSignSlip(q1, q2) ==
    <<q1[1] * q2[1] - q1[2] * q2[2] - q1[3] * q2[3] + q1[4] * q2[4],
      q1[3] * q2[4] - q2[3] * q1[4] + q1[1] * q2[2] + q2[1] * q1[2],
      q1[4] * q2[2] - q2[4] * q1[2] + q1[1] * q2[3] + q2[1] * q1[3],
      q1[2] * q2[3] - q2[2] * q1[3] + q1[1] * q2[4] + q2[1] * q1[4]>>

MultiplyQuats(q1, q2) ==
    <<q1[1] * q2[1] - q1[2] * q2[2] - q1[3] * q2[3] - q1[4] * q2[4],
      q1[3] * q2[4] - q2[3] * q1[4] + q1[1] * q2[2] + q2[1] * q1[2],
      q1[4] * q2[2] - q2[4] * q1[2] + q1[1] * q2[3] + q2[1] * q1[3],
      q1[2] * q2[3] - q2[2] * q1[3] + q1[1] * q2[4] + q2[1] * q1[4]>>

\* qConj = -q; qConj[0] = -qConj[0]; normSqr = multiplyQuats(q, qConj)[0];
\* return qConj/normSqr  (a division by zero yields nan, no exception)
QuatInv(q) ==
    LET qConj == <<q[1], -q[2], -q[3], -q[4]>>
        normSqr == MultiplyQuats(q, qConj)[1]
    IN  [num |-> qConj, den |-> normSqr]

(***************************************************************************)
(* _wignerD_matrices for one time sample.  The sample falls in i2 when ra  *)
(* is small, in i3 when only rb is small, else in i1.  In i2 and i3 the    *)
(* entries are powers of rb and ra; in i1 they are products with           *)
(* _utils.wigner_coef and _utils.binom (compiled code outside the Python   *)
(* sources) and the model keeps such a sample's result as "general".       *)
(* The quaternions of the model have integer components, so a component    *)
(* is below 1e-12 exactly when it is 0, and powers are taken of numbers of *)
(* modulus 1 only.                                                         *)
(***************************************************************************)
CMul(a, b) == <<a[1] * b[1] - a[2] * b[2], a[1] * b[2] + a[2] * b[1]>>

RECURSIVE CPowNat(_, _)
CPowNat(z, n) == IF n = 0 THEN <<1, 0>> ELSE CMul(z, CPowNat(z, n - 1))

\* z ** n for z of modulus 1
CPow(z, n) == IF n >= 0 THEN CPowNat(z, n) ELSE CPowNat(CConj(z), -n)

WignerBranch(q) ==
    LET ra_small == q.num[1] = 0 /\ q.num[4] = 0
        rb_small == q.num[3] = 0 /\ q.num[2] = 0
    IN  IF ra_small THEN "i2" ELSE IF rb_small THEN "i3" ELSE "i1"

\* A faulty variant: the i3 entries written where the i2 entries go (mp = -m).
WignerDAntiDiagonal(q, ell, row, col) ==
    LET ra == <<q.num[1], q.num[4]>>
        rb == <<q.num[3], q.num[2]>>
        m == row - ell
    IN  IF row + col # 2 * ell THEN <<0, 0>>
        ELSE IF WignerBranch(q) = "i2"
             THEN IF (ell + m) % 2 = 1 THEN CPow(rb, 2 * m)
                  ELSE CMul(<<-1, 0>>, CPow(rb, 2 * m))
             ELSE CPow(ra, 2 * m)

\* matrices[ell-2][row, col] at a sample of branch i2 or i3 (unit quaternion)
WignerD(q, ell, row, col) ==
    LET ra == <<q.num[1], q.num[4]>>
        rb == <<q.num[3], q.num[2]>>
        m == row - ell
    IN  IF WignerBranch(q) = "i2"
        THEN IF col # ell - m THEN <<0, 0>>
             ELSE IF (ell + m) % 2 = 1 THEN CPow(rb, 2 * m)
                  ELSE CMul(<<-1, 0>>, CPow(rb, 2 * m))
        ELSE IF col # ell + m THEN <<0, 0>>
             ELSE CPow(ra, 2 * m)

RECURSIVE CSumTerms(_, _, _, _)
CSumTerms(T, q, h, k) ==
    IF T = {} THEN <<0, 0>>
    ELSE LET x == CHOOSE y \in T : TRUE
         IN  CAdd(CMul(WignerD(q, x.ell, x.ell + x.m, x.ell + x.mp), h[x.in][k]),
                  CSumTerms(T \ {x}, q, h, k))

\* rotateWaveform(quat, h): quat[k] is the quaternion of sample k, h[row][k]
\* the value of mode row at sample k.
RotateWaveformValues(quat, h) ==
    LET rw == RotateWaveform(ALen(h))
        inv == [k \in DOMAIN quat |-> QuatInv(quat[k])]
    IN  IF rw.status # "ok" THEN [status |-> rw.status, res |-> None]
        ELSE [status |-> "ok",
              res |-> Some([row \in DOMAIN h |-> [k \in DOMAIN quat |->
                          IF WignerBranch(inv[k]) = "i1" THEN "general"
                          ELSE CSumTerms({x \in rw.terms : x.out = row}, inv[k], h, k)]])]

(***************************************************************************)
(* The frame functions called on their own.                                *)
(***************************************************************************)
Quats == {<<w, x, y, z>> : w \in (-MaxQuatComp)..MaxQuatComp, x \in (-MaxQuatComp)..MaxQuatComp,
            y \in (-MaxQuatComp)..MaxQuatComp, z \in (-MaxQuatComp)..MaxQuatComp}

\* The identity, the other unit quaternions with integer components, and
\* two quaternions of the general branch.
RotQuats ==
    {<<1, 0, 0, 0>>, <<-1, 0, 0, 0>>, <<0, 1, 0, 0>>, <<0, -1, 0, 0>>, <<0, 0, 1, 0>>,
     <<0, 0, -1, 0>>, <<0, 0, 0, 1>>, <<0, 0, 0, -1>>, <<1, 1, 0, 0>>, <<1, 0, 1, 1>>}

HArray(n, a, b) ==
    [row \in 0..(n - 1) |-> [k \in 0..(NSamples - 1) |-> <<row + 1 + a * k, b - row>>]]

ModeArrays == {HArray(n, a, b) : n \in {4, 5, 12}, a \in {0, 1}, b \in {0, 2}}

QuatInvCall ==
    /\ ret.fn = "none"
    /\ \E q \in Quats :
           /\ entry' = [fn |-> "quatInv", q |-> q]
           /\ ret' = [fn |-> "quatInv", inv |-> QuatInv(q)]
           /\ caller' = [q |-> q]
    /\ UNCHANGED <<h5file, dyn, coorb_sur, ret2, coorb, rot>>

MultiplyQuatsCall ==
    /\ ret.fn = "none"
    /\ \E q1 \in Quats, q2 \in RotQuats :
           /\ entry' = [fn |-> "multiplyQuats", q1 |-> q1, q2 |-> q2]
           /\ ret' = [fn |-> "multiplyQuats", prod |-> MultiplyQuats(q1, q2)]
    /\ UNCHANGED <<h5file, dyn, coorb_sur, caller, ret2, coorb, rot>>

RotateWaveformCall ==
    /\ ret.fn = "none"
    /\ \E quat \in [0..(NSamples - 1) -> RotQuats], h \in ModeArrays :
           /\ entry' = [fn |-> "rotateWaveform", quat |-> quat, h |-> h]
           /\ ret' = [fn |-> "rotateWaveform"] @@ RotateWaveformValues(quat, h)
    /\ UNCHANGED <<h5file, dyn, coorb_sur, caller, ret2, coorb, rot>>

InitFrame ==
    /\ h5file = <<>>
    /\ dyn = NoObject
    /\ coorb_sur = NoObject
    /\ caller = <<>>
    /\ entry = NoCall
    /\ ret = NoCall
    /\ ret2 = NoCall
    /\ coorb = NoCoorbCall
    /\ rot = NoRotation

NextFrame ==
    \/ QuatInvCall
    \/ MultiplyQuatsCall
    \/ RotateWaveformCall

SpecFrame == InitFrame /\ [][NextFrame]_vars

\* C11: rotateWaveform with the identity quaternion at every sample returns h
\* exactly for every recognized mode count; the identity falls in the branch
\* where only rb is small, whose matrices have ones on the diagonal m' = m and
\* zeros elsewhere.
C11_IdentityRotation ==
    (/\ ret.fn = "rotateWaveform"
     /\ ALen(entry.h) \in DOMAIN EllMaxTable) =>
        /\ ret.status = "ok"
        /\ \A k \in DOMAIN entry.quat :
               entry.quat[k] = <<1, 0, 0, 0>> =>
                   /\ WignerBranch(QuatInv(entry.quat[k])) = "i3"
                   /\ \A ell \in 2..EllMaxTable[ALen(entry.h)] :
                          \A row \in 0..(2 * ell), col \in 0..(2 * ell) :
                              WignerD(QuatInv(entry.quat[k]), ell, row, col)
                                  = IF row = col THEN <<1, 0>> ELSE <<0, 0>>
                   /\ \A row \in DOMAIN entry.h : Val(ret.res)[row][k] = entry.h[row][k]
        /\ (\A k \in DOMAIN entry.quat : entry.quat[k] = <<1, 0, 0, 0>>) =>
               Val(ret.res) = entry.h

\* An array of 12 modes with distinct rows has been rotated by the identity at
\* every sample.
C11_Witness ==
    /\ ret.fn = "rotateWaveform"
    /\ ret.status = "ok"
    /\ ALen(entry.h) = 12
    /\ entry.h[0][1] # entry.h[0][0]
    /\ \A k \in DOMAIN entry.quat : entry.quat[k] = <<1, 0, 0, 0>>

\* C12: for q # 0, quatInv(q) is the conjugate over the squared norm
\* w^2 + x^2 + y^2 + z^2, q times it is the identity, q times its conjugate is
\* (|q|^2, 0, 0, 0), and multiplyQuats is the Hamilton product.
C12_QuatInverse ==
    /\ (ret.fn = "quatInv" /\ entry.q # <<0, 0, 0, 0>>) =>
           LET q == entry.q
               n == q[1] * q[1] + q[2] * q[2] + q[3] * q[3] + q[4] * q[4]
               conj == <<q[1], -q[2], -q[3], -q[4]>>
           IN  /\ ret.inv.num = conj
               /\ ret.inv.den = n
               /\ n > 0
               /\ MultiplyQuats(q, conj) = <<n, 0, 0, 0>>
               /\ MultiplyQuats(q, ret.inv.num) = <<ret.inv.den, 0, 0, 0>>
               /\ caller.q = entry.q
    /\ ret.fn = "multiplyQuats" =>
           LET a == entry.q1
               b == entry.q2
           IN  ret.prod = <<a[1] * b[1] - a[2] * b[2] - a[3] * b[3] - a[4] * b[4],
                            a[1] * b[2] + a[2] * b[1] + a[3] * b[4] - a[4] * b[3],
                            a[1] * b[3] - a[2] * b[4] + a[3] * b[1] + a[4] * b[2],
                            a[1] * b[4] + a[2] * b[3] - a[3] * b[2] + a[4] * b[1]>>

\* quatInv has been applied to a quaternion with four non-zero components that
\* is not of unit norm.
C12_Witness ==
    /\ ret.fn = "quatInv"
    /\ entry.q = <<1, -2, 2, 1>>
    /\ ret.inv.den = 10

(***************************************************************************)
(* get_time_deriv called on its own, on any strictly increasing grid of    *)
(* at least 4 nodes and at any time that is a multiple of one quarter.     *)
(***************************************************************************)
MaxNodeTime == 7     \* the node times of these grids lie in 0..MaxNodeTime
MaxDerivLen == 6     \* the longest of these grids

\* The nodes at which get_time_deriv_from_index is evaluated (lines 311-312).
DerivNodes(r) == IF r.status = "ok" THEN [i \in 0..3 |-> r.imin + i] ELSE <<>>

\* The strictly increasing grid with the node times T.
RECURSIVE SortedSeq(_)
SortedSeq(T) ==
    IF T = {} THEN <<>>
    ELSE LET x == CHOOSE y \in T : \A z \in T : y <= z
         IN  <<x>> \o SortedSeq(T \ {x})

DerivGrids ==
    {Arr(SortedSeq(T)) : T \in {U \in SUBSET (0..MaxNodeTime) :
                                   Cardinality(U) >= 4 /\ Cardinality(U) <= MaxDerivLen}}

DerivTimes == {<<n, 4>> : n \in (-4)..(4 * MaxNodeTime + 4)}

GetTimeDerivCall ==
    /\ ret.fn = "none"
    /\ \E t \in DerivTimes :
           LET r == GetTimeDeriv(dyn, t)
           IN  /\ entry' = [fn |-> "get_time_deriv", t |-> t]
               /\ ret' = [fn |-> "get_time_deriv", status |-> r.status, imin |-> r.imin,
                          nodes |-> DerivNodes(r)]
    /\ UNCHANGED <<h5file, dyn, coorb_sur, caller, ret2, coorb, rot>>

InitDeriv ==
    /\ h5file \in {[t_ds |-> g] : g \in DerivGrids}
    /\ dyn = [status |-> "loaded", t |-> h5file.t_ds, L |-> ALen(h5file.t_ds)]
    /\ coorb_sur = NoObject
    /\ caller = <<>>
    /\ entry = NoCall
    /\ ret = NoCall
    /\ ret2 = NoCall
    /\ coorb = NoCoorbCall
    /\ rot = NoRotation

NextDeriv == GetTimeDerivCall

SpecDeriv == InitDeriv /\ [][NextDeriv]_vars

InsideGrid(t) == ~FracLt(t, Frac(dyn.t[0])) /\ ~FracLt(Frac(ALast(dyn.t)), t)

\* No node outside the window is closer to t than a node inside it.
FourNearest(t, imin) ==
    \A j \in imin..(imin + 3), o \in (DOMAIN dyn.t) \ (imin..(imin + 3)) :
        FracDist(t, dyn.t[o]) >= FracDist(t, dyn.t[j])

DtArray(self) ==
    [j \in 0..(self.L - 5) |-> IF j < 3 THEN 2 * self.diff_t[2 * j] ELSE self.diff_t[j + 3]]

\* a[i] of a numpy array or list of length n: a negative index counts from the
\* end; -1 stands for IndexError.
PyIndex(i, n) == IF i >= n \/ i < -n THEN -1 ELSE IF i < 0 THEN i + n ELSE i

\* a[lo:hi] for 0 <= lo
PySlice(a, lo, hi) ==
    LET top == Min(hi, ALen(a))
    IN  [j \in 1..Max(0, top - lo) |-> a[lo + j - 1]]

Reverse(s) == [j \in 1..Len(s) |-> s[Len(s) + 1 - j]]

ZeroRow == [by |-> "zeros", normalized |-> FALSE, qnorm2 |-> 0, writes |-> 0]

\* y_of_t[row] = what by produced (row is a valid index)
WriteRowOf(y, row, by, normalized, qnorm2) ==
    [y EXCEPT ![row] = [by |-> by, normalized |-> normalized, qnorm2 |-> qnorm2,
                        writes |-> @.writes + 1]]

QuatNormSq(init_quat) ==
    IF init_quat = None THEN 1
    ELSE LET v == Val(init_quat) IN v[1] * v[1] + v[2] * v[2] + v[3] * v[3] + v[4] * v[4]

\* self.get_time_deriv_from_index(node, q, y_of_t[row] ...)
FromIndex(self, node, row, stage) ==
    [via |-> "index", node |-> PyIndex(node, self.L), row |-> row, stage |-> stage,
     t |-> None, window |-> <<>>,
     status |-> IF PyIndex(node, self.L) = -1 THEN "IndexError" ELSE "ok"]

\* self.get_time_deriv(t, q, y_of_t[row] ...)
ViaSpline(self, t, row, stage) ==
    LET r == GetTimeDeriv(self, t)
    IN  [via |-> "spline", node |-> -1, row |-> row, stage |-> stage, t |-> Some(t),
         window |-> DerivNodes(r), status |-> r.status]

StepRec(kind, src, dst, t1, t2, stages, k, dt) ==
    [kind |-> kind, src |-> src, dst |-> dst, t1 |-> t1, t2 |-> t2, stages |-> stages,
     k |-> k, dt |-> dt]

NoStep == StepRec("none", -1, -1, None, None, <<>>, <<>>, <<>>)

StepFailed(status, y_of_t, step) ==
    [status |-> status, y_of_t |-> y_of_t, step |-> step, k1 |-> None]

FirstError(stages) ==
    LET bad == {j \in DOMAIN stages : stages[j].status # "ok"}
    IN  IF bad = {} THEN "ok" ELSE stages[CHOOSE j \in bad : \A i \in bad : j <= i].status

\* One iteration of the loop of _initial_RK4 (i = 0, 1, 2).
InitialRK4Step(self, y_of_t, i) ==
    LET stages == <<FromIndex(self, 2 * i, i, 1), FromIndex(self, 2 * i + 1, i, 2),
                    FromIndex(self, 2 * i + 1, i, 3), FromIndex(self, 2 * i + 2, i, 4)>>
        step == StepRec("rk4_initial", i, i + 1, None, None, stages, <<>>,
                        <<self.diff_t[2 * i]>>)
    IN  IF PyIndex(i + 1, ALen(y_of_t)) = -1 THEN StepFailed("IndexError", y_of_t, step)
        ELSE [status |-> "ok", y_of_t |-> WriteRowOf(y_of_t, i + 1, "rk4", TRUE, 1),
              step |-> step, k1 |-> Some(stages[1])]

\* A faulty variant: the first stage, which falls on a node, is taken from the
\* node's fit directly.
RK4StagesNodeFirst(self, t1, t2, i0) ==
    LET mid == <<t1 + t2, 2>>
    IN  <<FromIndex(self, IF i0 < 3 THEN i0 * 2 ELSE i0 + 3, i0, 1),
          ViaSpline(self, mid, i0, 2), ViaSpline(self, mid, i0, 3),
          ViaSpline(self, Frac(t2), i0, 4)>>

\* The four stages of _one_forward_RK4_step and _one_backward_RK4_step.
RK4Stages(self, t1, t2, i0) ==
    LET mid == <<t1 + t2, 2>>       \* t1 + half_dt, half_dt = 0.5*(t2 - t1)
    IN  <<ViaSpline(self, Frac(t1), i0, 1), ViaSpline(self, mid, i0, 2),
          ViaSpline(self, mid, i0, 3), ViaSpline(self, Frac(t2), i0, 4)>>

OneForwardRK4Step(self, y_of_t, i0) ==
    LET i_t == IF i0 < 3 THEN i0 * 2 ELSE i0 + 3
        n1 == PyIndex(i_t, self.L)
        n2 == PyIndex(i_t + 1, self.L)
        n3 == IF i0 < 3 THEN PyIndex(i_t + 2, self.L) ELSE n2
    IN  IF n1 = -1 \/ n2 = -1 \/ n3 = -1 \/ PyIndex(i0, ALen(y_of_t)) = -1
        THEN StepFailed("IndexError", y_of_t,
                        StepRec("rk4_forward", i0, i0 + 1, None, None, <<>>, <<>>, <<>>))
        ELSE LET t1 == self.t[n1]
                 t2 == self.t[n3]
                 stages == RK4Stages(self, t1, t2, i0)
                 step == StepRec("rk4_forward", i0, i0 + 1, Some(t1), Some(t2), stages,
                                 <<>>, <<>>)
             IN  IF FirstError(stages) # "ok"
                 THEN StepFailed(FirstError(stages), y_of_t, step)
                 ELSE IF PyIndex(i0 + 1, ALen(y_of_t)) = -1
                 THEN StepFailed("IndexError", y_of_t, step)
                 ELSE [status |-> "ok",
                       y_of_t |-> WriteRowOf(y_of_t, PyIndex(i0 + 1, ALen(y_of_t)),
                                             "rk4", TRUE, 1),
                       step |-> step, k1 |-> Some(stages[1])]

OneBackwardRK4Step(self, y_of_t, i0) ==
    LET i_t == IF i0 < 3 THEN i0 * 2 ELSE i0 + 3
        n1 == PyIndex(i_t, self.L)
        n2 == PyIndex(i_t - 1, self.L)
        n3 == IF i0 <= 3 THEN PyIndex(i_t - 2, self.L) ELSE n2
    IN  IF n1 = -1 \/ n2 = -1 \/ n3 = -1 \/ PyIndex(i0, ALen(y_of_t)) = -1
        THEN StepFailed("IndexError", y_of_t,
                        StepRec("rk4_backward", i0, i0 - 1, None, None, <<>>, <<>>, <<>>))
        ELSE LET t1 == self.t[n1]
                 t2 == self.t[n3]
                 stages == RK4Stages(self, t1, t2, i0)
                 step == StepRec("rk4_backward", i0, i0 - 1, Some(t1), Some(t2), stages,
                                 <<>>, <<>>)
             IN  IF FirstError(stages) # "ok"
                 THEN StepFailed(FirstError(stages), y_of_t, step)
                 ELSE IF PyIndex(i0 - 1, ALen(y_of_t)) = -1
                 THEN StepFailed("IndexError", y_of_t, step)
                 ELSE [status |-> "ok",
                       y_of_t |-> WriteRowOf(y_of_t, PyIndex(i0 - 1, ALen(y_of_t)),
                                             "rk4", TRUE, 1),
                       step |-> step, k1 |-> Some(stages[1])]

\* One iteration of the loop of _integrate_forward: k is <<k1, k2, k3>>, dt is
\* <<dt1, dt2, dt3>>, i_output the row stepped from.
ForwardAB4Step(self, y_of_t, k, dt, i_output) ==
    LET dt4 == self.diff_t[i_output + 3]
        k4 == FromIndex(self, i_output + 3, i_output, 1)
    IN  [status |-> "ok",
         y_of_t |-> WriteRowOf(y_of_t, i_output + 1, "ab4", TRUE, 1),
         step |-> StepRec("ab4_forward", i_output, i_output + 1, None, None, <<k4>>,
                          k \o <<k4>>, dt \o <<dt4>>),
         k |-> <<k[2], k[3], k4>>, dt |-> <<dt[2], dt[3], dt4>>]

\* One iteration of the loop of _integrate_backward: i_output is the row written.
BackwardAB4Step(self, y_of_t, k, dt, i_output) ==
    LET node_index == IF i_output < 2 THEN 2 + 2 * i_output ELSE i_output + 4
        dt4 == DtArray(self)[i_output]
        k4 == FromIndex(self, node_index, i_output + 1, 1)
    IN  [status |-> "ok",
         y_of_t |-> WriteRowOf(y_of_t, i_output, "ab4", TRUE, 1),
         step |-> StepRec("ab4_backward", i_output + 1, i_output, None, None, <<k4>>,
                          k \o <<k4>>, dt \o <<dt4>>),
         k |-> <<k[2], k[3], k4>>, dt |-> <<dt[2], dt[3], dt4>>]

(***************************************************************************)
(* DynamicsSurrogate.__call__ as a sequence of steps.  ret is the running  *)
(* call: pc its position ("rk4": the three bootstrap steps, "ab4a" and     *)
(* "ab4b": the first and the second AB4 loop, "done", "raised"), y_of_t    *)
(* the buffer, k_ab4 and dt_ab4 the lists of __call__, k and dt the locals *)
(* k1..k3 and dt1..dt3 of the running AB4 loop, next the loop variable     *)
(* i_output of its next iteration, step the step taken last.               *)
(***************************************************************************)
RegimeOf(i0) == IF i0 = 0 THEN "start" ELSE IF i0 > 2 THEN "interior" ELSE "near_start"

NoRun ==
    [fn |-> "DynamicsSurrogate.__call__", pc |-> "raised", status |-> "ok",
     regime |-> "none", i0 |-> -1, t_ref |-> None, y_of_t |-> <<>>, k_ab4 |-> <<>>,
     dt_ab4 |-> <<>>, n_rk4 |-> 0, n_ab4 |-> 0, dir |-> "none", next |-> -1,
     k |-> <<>>, dt |-> <<>>, step |-> NoStep, out |-> None]

\* Lines 389-404: the argument checks, _get_t_ref and _initialize.
BeginCall(self, chiA0, chiB0, init_quat, t_ref, omega_ref) ==
    IF t_ref # None /\ omega_ref # None
    THEN [NoRun EXCEPT !.status = "Exception: Specify at most one of t_ref, omega_ref."]
    ELSE IF MaxNormExceeds(chiA0, chiB0, SpinLimit)
    THEN [NoRun EXCEPT !.status = "Exception: Got a spin magnitude > 1.0"]
    ELSE LET found == IF omega_ref # None
                      THEN GetTRef(self, Val(omega_ref))
                      ELSE [status |-> "ok", evals |-> 0,
                            t_ref |-> IF t_ref = None THEN None
                                      ELSE Some(Frac(Val(t_ref)))]
         IN  IF found.status # "ok" THEN [NoRun EXCEPT !.status = found.status]
             ELSE LET init == Initialize(self, found.t_ref)
                      data == [j \in 0..(self.L - 4) |-> ZeroRow]
                      euler == StepRec("euler", -1, init.i0, None, None,
                                       <<ViaSpline(self, Val(found.t_ref), -1, 1)>>,
                                       <<>>, <<>>)
                  IN  IF found.t_ref = None
                      THEN [NoRun EXCEPT !.pc = "rk4", !.regime = RegimeOf(0), !.i0 = 0,
                               !.y_of_t = WriteRowOf(data, 0, "y0", FALSE,
                                                     QuatNormSq(init_quat)),
                               !.step = StepRec("init", -1, 0, None, None, <<>>, <<>>,
                                                <<>>)]
                      ELSE IF init.status # "ok"
                      THEN [NoRun EXCEPT !.status = init.status, !.t_ref = found.t_ref,
                               !.y_of_t = data, !.step = euler]
                      ELSE [NoRun EXCEPT !.pc = "rk4", !.regime = RegimeOf(init.i0),
                               !.i0 = init.i0, !.t_ref = found.t_ref,
                               !.y_of_t = WriteRowOf(data, init.i0, "euler", TRUE, 1),
                               !.step = euler]

\* One of the three RK4 steps of the regime (lines 408, 414-417, 430-433).
BootstrapStep(self, run) ==
    LET i == run.n_rk4
        r == IF run.regime = "start" THEN InitialRK4Step(self, run.y_of_t, i)
             ELSE IF run.regime = "interior"
             THEN OneBackwardRK4Step(self, run.y_of_t, run.i0 - i)
             ELSE OneForwardRK4Step(self, run.y_of_t, run.i0 + i)
    IN  IF r.status # "ok"
        THEN [run EXCEPT !.pc = "raised", !.status = r.status, !.step = r.step]
        ELSE [run EXCEPT !.y_of_t = r.y_of_t, !.step = r.step, !.n_rk4 = i + 1,
                         !.k_ab4 = Append(@, Val(r.k1)),
                         !.dt_ab4 = IF run.regime = "start"
                                    THEN Append(@, 2 * self.diff_t[2 * i]) ELSE @]

\* Entering _integrate_forward(i0, k_ab4, dt_ab4): the guard, then the locals.
EnterForward(self, run, pc, i0, k_ab4, dt_ab4) ==
    IF i0 < 3
    THEN [run EXCEPT !.pc = "raised", !.status = "Exception: i0 must be at least 3!",
                     !.k_ab4 = k_ab4, !.dt_ab4 = dt_ab4]
    ELSE IF Len(k_ab4) # 3 \/ Len(dt_ab4) # 3
    THEN [run EXCEPT !.pc = "raised", !.status = "ValueError",
                     !.k_ab4 = k_ab4, !.dt_ab4 = dt_ab4]
    ELSE [run EXCEPT !.pc = pc, !.dir = "forward", !.next = i0, !.k_ab4 = k_ab4,
                     !.dt_ab4 = dt_ab4, !.k = k_ab4, !.dt = dt_ab4]

\* A faulty variant: the loop starts at row i0 itself, range(i0 + 1)[::-1].
EnterBackwardFromRow(self, run, pc, i0, k_ab4, dt_ab4) ==
    IF i0 > ALen(self.t) - 7
    THEN [run EXCEPT !.pc = "raised",
                     !.status = "Exception: i0 must be <= len(self.t) - 7",
                     !.k_ab4 = k_ab4, !.dt_ab4 = dt_ab4]
    ELSE IF Len(k_ab4) # 3 \/ Len(dt_ab4) # 3
    THEN [run EXCEPT !.pc = "raised", !.status = "ValueError",
                     !.k_ab4 = k_ab4, !.dt_ab4 = dt_ab4]
    ELSE [run EXCEPT !.pc = pc, !.dir = "backward", !.next = i0, !.k_ab4 = k_ab4,
                     !.dt_ab4 = dt_ab4, !.k = k_ab4, !.dt = dt_ab4]

\* Entering _integrate_backward(i0, k_ab4, dt_ab4).
EnterBackward(self, run, pc, i0, k_ab4, dt_ab4) ==
    IF i0 > ALen(self.t) - 7
    THEN [run EXCEPT !.pc = "raised",
                     !.status = "Exception: i0 must be <= len(self.t) - 7",
                     !.k_ab4 = k_ab4, !.dt_ab4 = dt_ab4]
    ELSE IF Len(k_ab4) # 3 \/ Len(dt_ab4) # 3
    THEN [run EXCEPT !.pc = "raised", !.status = "ValueError",
                     !.k_ab4 = k_ab4, !.dt_ab4 = dt_ab4]
    ELSE [run EXCEPT !.pc = pc, !.dir = "backward", !.next = i0 - 1, !.k_ab4 = k_ab4,
                     !.dt_ab4 = dt_ab4, !.k = k_ab4, !.dt = dt_ab4]

\* Lines 409, 420-422, 436-438: the step sizes of the bootstrap, then the first
\* AB4 loop.
StartAB4(self, run) ==
    IF run.regime = "start"
    THEN EnterForward(self, run, "ab4a", 3, run.k_ab4, run.dt_ab4)
    ELSE IF run.regime = "interior"
    THEN EnterBackward(self, run, "ab4a", run.i0 - 3, run.k_ab4,
                       Reverse(PySlice(DtArray(self), run.i0 - 3, run.i0)))
    ELSE EnterForward(self, run, "ab4a", run.i0 + 3, run.k_ab4,
                      PySlice(DtArray(self), run.i0, run.i0 + 3))

\* The loop of the running _integrate_* has no iteration left.
LoopDone(self, run) ==
    IF run.dir = "forward" THEN run.next + 3 > self.L - 2 ELSE run.next < 0

AB4Step(self, run) ==
    LET r == IF run.dir = "forward"
             THEN ForwardAB4Step(self, run.y_of_t, run.k, run.dt, run.next)
             ELSE BackwardAB4Step(self, run.y_of_t, run.k, run.dt, run.next)
    IN  [run EXCEPT !.y_of_t = r.y_of_t, !.step = r.step, !.k = r.k, !.dt = r.dt,
                    !.n_ab4 = @ + 1,
                    !.next = IF run.dir = "forward" THEN @ + 1 ELSE @ - 1]

\* Lines 424-427 and 440-444: the derivative history of the second AB4 loop.
HandOff(self, run) ==
    LET row == IF run.regime = "interior" THEN run.i0 - 3 ELSE run.i0 + 3
        tmp_k == FromIndex(self, IF run.regime = "interior" THEN run.i0 ELSE run.i0 + 3,
                           row, 1)
        k_ab4 == <<tmp_k, run.k_ab4[3], run.k_ab4[2]>>
        dt_ab4 == Reverse(run.dt_ab4)
        seeded == [run EXCEPT !.step = StepRec("handoff", row, row, None, None,
                                               <<tmp_k>>, k_ab4, dt_ab4)]
    IN  IF tmp_k.status # "ok" \/ PyIndex(row, ALen(run.y_of_t)) = -1
        THEN [seeded EXCEPT !.pc = "raised", !.status = "IndexError"]
        ELSE IF run.regime = "interior"
        THEN EnterForward(self, seeded, "ab4b", run.i0, k_ab4, dt_ab4)
        ELSE EnterBackward(self, seeded, "ab4b", run.i0, k_ab4, dt_ab4)

\* Lines 446-451: the four arrays are columns of y_of_t.
Returned(run) ==
    [run EXCEPT !.pc = "done",
                !.out = Some([quat |-> <<4, ALen(run.y_of_t)>>,
                              orbphase |-> <<ALen(run.y_of_t)>>,
                              chiA_copr |-> <<ALen(run.y_of_t), 3>>,
                              chiB_copr |-> <<ALen(run.y_of_t), 3>>])]

(***************************************************************************)
(* The integrator on its own: a surrogate constructed from a container     *)
(* with a valid grid, then one call, step by step.                         *)
(***************************************************************************)
PairGrids ==
    {GridOf(<<a, a, b, b, c, c>>, L) : a \in HalfSteps, b \in HalfSteps, c \in HalfSteps,
                                       L \in MinL..MaxL}

IntH5Files == {H5File(t, OmegaOf(40000, 30000, 0, ALen(t)), 4, <<0, 1>>) : t \in PairGrids}

IntQuats == {None, Some(<<0, 0, 0, 1>>), Some(<<2, 0, 0, 0>>)}
IntTRefs == {None} \cup {Some(v) : v \in (-21)..(NativeStep * (MaxL - 7) - 7)}
IntOmegaRefs == {None, Some(55000), Some(130000)}

Call_Initialize(init_quat, t_ref, omega_ref) ==
    /\ entry' = [fn |-> "DynamicsSurrogate.__call__", q |-> 1, chiA0 |-> <<0, 0, 300>>,
                 chiB0 |-> <<0, 0, -100>>, init_quat |-> init_quat, init_orbphase |-> 0,
                 t_ref |-> t_ref, omega_ref |-> omega_ref]
    /\ ret' = BeginCall(dyn, <<0, 0, 300>>, <<0, 0, -100>>, init_quat, t_ref, omega_ref)
    /\ UNCHANGED <<h5file, dyn, coorb_sur, caller, ret2, coorb, rot>>

Call_Begin ==
    /\ dyn.status = "loaded"
    /\ ret.fn = "none"
    /\ \E init_quat \in IntQuats, t_ref \in IntTRefs, omega_ref \in IntOmegaRefs :
           Call_Initialize(init_quat, t_ref, omega_ref)

Call_RK4Step ==
    /\ ret.fn = "DynamicsSurrogate.__call__" /\ ret.pc = "rk4" /\ ret.n_rk4 < 3
    /\ ret' = BootstrapStep(dyn, ret)
    /\ UNCHANGED <<h5file, dyn, coorb_sur, caller, entry, ret2, coorb, rot>>

Call_StartAB4 ==
    /\ ret.fn = "DynamicsSurrogate.__call__" /\ ret.pc = "rk4" /\ ret.n_rk4 = 3
    /\ ret' = StartAB4(dyn, ret)
    /\ UNCHANGED <<h5file, dyn, coorb_sur, caller, entry, ret2, coorb, rot>>

Call_AB4Step ==
    /\ ret.fn = "DynamicsSurrogate.__call__" /\ ret.pc \in {"ab4a", "ab4b"}
    /\ ~LoopDone(dyn, ret)
    /\ ret' = AB4Step(dyn, ret)
    /\ UNCHANGED <<h5file, dyn, coorb_sur, caller, entry, ret2, coorb, rot>>

Call_HandOff ==
    /\ ret.fn = "DynamicsSurrogate.__call__" /\ ret.pc = "ab4a" /\ ret.regime # "start"
    /\ LoopDone(dyn, ret)
    /\ ret' = HandOff(dyn, ret)
    /\ UNCHANGED <<h5file, dyn, coorb_sur, caller, entry, ret2, coorb, rot>>

Call_Return ==
    /\ ret.fn = "DynamicsSurrogate.__call__"
    /\ \/ ret.pc = "ab4a" /\ ret.regime = "start"
       \/ ret.pc = "ab4b"
    /\ LoopDone(dyn, ret)
    /\ ret' = Returned(ret)
    /\ UNCHANGED <<h5file, dyn, coorb_sur, caller, entry, ret2, coorb, rot>>

InitInt ==
    /\ h5file \in IntH5Files
    /\ dyn = DynamicsSurrogateInit(h5file)
    /\ coorb_sur = NoObject
    /\ caller = <<>>
    /\ entry = NoCall
    /\ ret = NoCall
    /\ ret2 = NoCall
    /\ coorb = NoCoorbCall
    /\ rot = NoRotation

NextInt ==
    \/ Call_Begin
    \/ Call_RK4Step
    \/ Call_StartAB4
    \/ Call_AB4Step
    \/ Call_HandOff
    \/ Call_Return

SpecInt == InitInt /\ [][NextInt]_vars

Running == ret.fn = "DynamicsSurrogate.__call__"
Finished == Running /\ ret.pc = "done"
RowsOf(run) == DOMAIN run.y_of_t

\* C13: every state vector of the returned array was renormalized before it
\* was stored (its quaternion has norm 1), the row at the reference index
\* included, in each regime, with and without a reference time or frequency.
C13_EveryRowRenormalized ==
    Finished =>
        \A j \in RowsOf(ret) : ret.y_of_t[j].normalized /\ ret.y_of_t[j].qnorm2 = 1

\* C14: the returned arrays have L = len(self.t) time samples, one for each
\* node of self.t.
C14_OneSamplePerGridNode ==
    Finished =>
        /\ Val(ret.out).quat = <<4, dyn.L>>
        /\ Val(ret.out).orbphase = <<dyn.L>>
        /\ Val(ret.out).chiA_copr = <<dyn.L, 3>>
        /\ Val(ret.out).chiB_copr = <<dyn.L, 3>>

StagesVia(step, via) == \A j \in DOMAIN step.stages : step.stages[j].via = via
SingleRK4Kinds == {"rk4_forward", "rk4_backward"}
NodeKinds == {"rk4_initial", "ab4_forward", "ab4_backward", "handoff"}

\* C15 (as stated): get_time_deriv is invoked only by the Euler step of
\* _initialize; every stage derivative of every RK4 step and every derivative
\* of every AB4 step comes from get_time_deriv_from_index.
C15_SplineOnlyInEulerStep ==
    Running =>
        /\ ret.step.kind = "euler" => StagesVia(ret.step, "spline")
        /\ ret.step.kind \in SingleRK4Kinds \cup NodeKinds => StagesVia(ret.step, "index")

\* C15 (amended): get_time_deriv is invoked by the Euler step of _initialize
\* and by all four stages of every step of _one_forward_RK4_step and
\* _one_backward_RK4_step (the regimes i0 > 2 and 0 < i0 <= 2); the RK4 steps
\* of _initial_RK4 (the regime i0 == 0), every AB4 step and the hand-off
\* derivative come from get_time_deriv_from_index at a grid node.
C15_SplineInEulerAndSingleRK4Steps ==
    Running =>
        /\ ret.step.kind \in {"euler"} \cup SingleRK4Kinds => StagesVia(ret.step, "spline")
        /\ ret.step.kind \in SingleRK4Kinds /\ ret.status = "ok" => Len(ret.step.stages) = 4
        /\ ret.step.kind \in NodeKinds =>
              /\ StagesVia(ret.step, "index")
              /\ ret.step.stages # <<>>
              /\ \A j \in DOMAIN ret.step.stages : ret.step.stages[j].node \in DOMAIN dyn.t
        /\ ret.regime = "start" => ret.step.kind \notin SingleRK4Kinds
        /\ ret.regime \in {"interior", "near_start"} => ret.step.kind # "rk4_initial"

\* A backward RK4 step of the regime i0 > 2 has taken its four derivatives, the
\* first at a grid node and the second between two nodes, through get_time_deriv.
C15_Witness ==
    /\ Running /\ ret.status = "ok" /\ ret.regime = "interior"
    /\ ret.step.kind = "rk4_backward" /\ Len(ret.step.stages) = 4
    /\ StagesVia(ret.step, "spline")
    /\ \E j \in DOMAIN dyn.t : Val(ret.step.stages[1].t) = Frac(dyn.t[j])
    /\ \A j \in DOMAIN dyn.t : Val(ret.step.stages[2].t) # <<2 * dyn.t[j], 2>>

GuardErrors ==
    {"Exception: i0 must be at least 3!", "Exception: i0 must be <= len(self.t) - 7"}
BootstrapKind(regime) ==
    IF regime = "start" THEN "rk4_initial"
    ELSE IF regime = "interior" THEN "rk4_backward" ELSE "rk4_forward"
FirstPass(regime) == IF regime = "interior" THEN "backward" ELSE "forward"
SecondPass(regime) == IF regime = "interior" THEN "forward" ELSE "backward"

\* C17: for every reference index i0 the call follows its regime to the end, in
\* the order stated: exactly 3 RK4 steps (forward from row 0, backward from
\* i0 > 2, forward from 0 < i0 <= 2), then AB4 in the regime's first direction
\* to the end of the grid, then (i0 > 0) AB4 in the other direction; no AB4
\* step before the third RK4 step, every AB4 step with three derivatives and
\* step sizes of history, and neither guard of the AB4 loops fires.
C17_RegimeOrder ==
    Running /\ ret.regime # "none" =>
        /\ ret.regime = RegimeOf(ret.i0)
        /\ ret.status \notin GuardErrors
        /\ ret.pc # "raised"
        /\ ret.pc = "rk4" =>
              /\ ret.n_ab4 = 0
              /\ ret.n_rk4 > 0 =>
                    /\ ret.step.kind = BootstrapKind(ret.regime)
                    /\ ret.step.src = (IF ret.regime = "start" THEN ret.n_rk4 - 1
                                       ELSE IF ret.regime = "interior"
                                       THEN ret.i0 - (ret.n_rk4 - 1)
                                       ELSE ret.i0 + (ret.n_rk4 - 1))
        /\ ret.pc \in {"ab4a", "ab4b", "done"} => ret.n_rk4 = 3
        /\ ret.pc = "ab4a" => ret.dir = FirstPass(ret.regime)
        /\ ret.pc = "ab4b" => ret.regime # "start" /\ ret.dir = SecondPass(ret.regime)
        /\ ret.step.kind \in {"ab4_forward", "ab4_backward"} =>
              Len(ret.step.k) = 4 /\ Len(ret.step.dt) = 4
        /\ ret.pc = "done" =>
              /\ ret.n_ab4 = dyn.L - 7
              /\ \A j \in RowsOf(ret) : ret.y_of_t[j].writes = 1

\* The grid node whose fit (or, through the spline, whose derivative value) a
\* derivative was taken from; -1 when it was taken between nodes.
EffNode(self, k) ==
    IF k.via = "index" THEN k.node
    ELSE LET at == {j \in {k.window[i] : i \in DOMAIN k.window} : Frac(self.t[j]) = Val(k.t)}
         IN  IF at = {} THEN -1 ELSE CHOOSE j \in at : TRUE

\* k is the right-hand side on the stored state of row, with the fit of the
\* grid node at the row's time.
OnRowNode(self, k, row) ==
    /\ row \in DOMAIN CollapsedTimes(self)
    /\ k.row = row /\ k.stage = 1
    /\ EffNode(self, k) # -1
    /\ self.t[EffNode(self, k)] = CollapsedTimes(self)[row]

\* C18: at the hand-off the history seeding the second AB4 chain is
\* [dydt(n-3), dydt(n-2), dydt(n-1)] (forward chain from n = i0) or
\* [dydt(n+3), dydt(n+2), dydt(n+1)] (backward chain from n = i0), each
\* evaluated on its row with the fit of the grid node at that row's time.
C18_HandOffHistory ==
    Running /\ ret.step.kind = "handoff" /\ ret.regime \in {"interior", "near_start"} =>
        /\ Len(ret.step.k) = 3
        /\ \A j \in 1..3 :
              OnRowNode(dyn, ret.step.k[j],
                        IF ret.regime = "interior" THEN ret.i0 - (4 - j)
                        ELSE ret.i0 + (4 - j))

\* C19: in every AB4 step k4 is the right-hand side on the source row with the
\* fit of the node at its time, dt4 is the time from the source row to the
\* destination row, and k1..k3, dt1..dt3 are those of the three rows before the
\* source in the direction of travel.
C19_AB4Inputs ==
    Running /\ ret.step.kind \in {"ab4_forward", "ab4_backward"} =>
        LET d == IF ret.step.kind = "ab4_forward" THEN 1 ELSE -1
            times == CollapsedTimes(dyn)
        IN  /\ ret.step.dst = ret.step.src + d
            /\ \A j \in 1..4 :
                  LET row == ret.step.src - d * (4 - j)
                  IN  /\ OnRowNode(dyn, ret.step.k[j], row)
                      /\ ret.step.dt[j] = Abs(times[row + d] - times[row])

\* C20: a step of _one_forward_RK4_step or _one_backward_RK4_step at row i
\* reads inside the grid, integrates from the time of row i to the time of
\* row i+1 (forward) or i-1 (backward), and writes that row.
C20_RK4StepTimes ==
    Running /\ ret.step.kind \in SingleRK4Kinds =>
        LET d == IF ret.step.kind = "rk4_forward" THEN 1 ELSE -1
            times == CollapsedTimes(dyn)
        IN  /\ ret.status # "IndexError"
            /\ ret.step.dst = ret.step.src + d
            /\ ret.step.src \in DOMAIN times /\ ret.step.dst \in DOMAIN times
            /\ ret.step.t1 = Some(times[ret.step.src])
            /\ ret.step.t2 = Some(times[ret.step.dst])
            /\ ret.y_of_t[ret.step.dst].by = "rk4"

RowsBy(run, who) == {j \in RowsOf(run) : run.y_of_t[j].by \in who}

\* C21: when the call returns, each of the L-3 rows of the buffer has been
\* written exactly once: the reference row i0 by _initialize, three rows by
\* RK4 and all others by AB4.  During the call no row is written twice, the
\* buffer keeps its rows 0..L-4, every step writes a row of the buffer and
\* reads a row that an earlier step has written.
C21_RowsWrittenOnce ==
    Running /\ ret.regime # "none" =>
        /\ RowsOf(ret) = 0..(dyn.L - 4)
        /\ \A j \in RowsOf(ret) : ret.y_of_t[j].writes <= 1
        /\ \A j \in RowsOf(ret) : ret.y_of_t[j].writes = 0 <=> ret.y_of_t[j].by = "zeros"
        /\ ret.i0 \in 0..(dyn.L - 4) /\ RowsBy(ret, {"y0", "euler"}) = {ret.i0}
        /\ Cardinality(RowsBy(ret, {"rk4"})) = ret.n_rk4
        /\ Cardinality(RowsBy(ret, {"ab4"})) = ret.n_ab4
        /\ ret.step.src # -1 =>
              ret.step.src \in RowsOf(ret) /\ ret.y_of_t[ret.step.src].writes = 1
        /\ ret.status = "ok" =>
              ret.step.dst \in RowsOf(ret) /\ ret.y_of_t[ret.step.dst].writes = 1
        /\ ret.status = "ok" /\ ret.step.kind # "handoff" => ret.step.src # ret.step.dst
        /\ ret.pc = "done" =>
              /\ \A j \in RowsOf(ret) : ret.y_of_t[j].writes = 1
              /\ ret.n_rk4 = 3
              /\ ret.n_ab4 = dyn.L - 7

\* A call of the regime i0 > 2 on a grid of 9 nodes has returned after both AB4
\* passes wrote rows: 1 + 3 + 2 rows, each written once.
C21_Witness ==
    /\ Finished /\ ret.regime = "interior" /\ ret.i0 = 4 /\ dyn.L = 9
    /\ ret.y_of_t[0].by = "ab4" /\ ret.y_of_t[5].by = "ab4"
    /\ \A j \in RowsOf(ret) : ret.y_of_t[j].writes = 1

FracLe(a, b) == ~FracLt(b, a)

\* C22: for every omega_ref with omega0 <= omega_ref <= 0.201 the bracket
\* search of _get_t_ref ends at an index imax <= L-1 inside the grid with
\* omega(imax-1) <= omega_ref < omega(imax), the interpolated reference time
\* lies in [t[imax-1], t[imax]], no fit past the last node is indexed and the
\* error "t_ref outside of the time domain limits" is not raised.
C22_BracketInsideGrid ==
    /\ ret.fn = "DynamicsSurrogate.__call__"
    /\ entry.omega_ref # None /\ entry.t_ref = None
    /\ ret.dyn.status \notin ValidationErrors
    /\ GetOmega(dyn, 0) <= Val(entry.omega_ref) /\ Val(entry.omega_ref) <= OmegaCeil
    => LET imax == ret.dyn.evals - 1
           w == Val(entry.omega_ref)
       IN  /\ imax \in 1..(dyn.L - 1)
           /\ GetOmega(dyn, imax - 1) <= w /\ w < GetOmega(dyn, imax)
           /\ ret.dyn.status # "Exception: t_ref outside of the time domain limits!"
           /\ ret.dyn.t_ref # None
           /\ FracLe(Frac(dyn.t[imax - 1]), Val(ret.dyn.t_ref))
           /\ FracLe(Val(ret.dyn.t_ref), Frac(dyn.t[imax]))

====
